---------------------------- MODULE Spec2Model ----------------------------
(***************************************************************************)
(* Checkout subsystem of the community-services platform:                  *)
(*   - the Cart Store  (src/src/context/CartContext.js): cartReducer, the  *)
(*     CartProvider effects (load / save of the 'cart' storage entry) and  *)
(*     the asynchronous createBooking;                                     *)
(*   - the Booking Service (src/routes/user.js POST /bookings) with the    *)
(*     Booking model (src/models/Booking.js) and the Product catalog.      *)
(*                                                                         *)
(* Money is held in mills (1/1000 of the currency unit): 10.00 is 10000,   *)
(* one cent is 10.  An amount stands for the JavaScript Number (binary     *)
(* double) nearest to it; products and sums are rounded as IEEE 754 rounds *)
(* them, and toFixed rounds the double that results.                       *)
(***************************************************************************)
EXTENDS Integers, Sequences, FiniteSets, Bags, TLC

VARIABLES
    cart,       \* CartProvider reducer state {items,totalItems,totalAmount,loading,error}
    storage,    \* localStorage entry 'cart'
    queued,     \* the action the load effect dispatched, until React renders it
    calls,      \* bag of userAPI.createBooking payloads whose promise has not settled
    result,     \* what the most recent cart operation delivered to its caller or logged
    catalog,    \* Product collection: product id -> document or NoDoc
    bookings,   \* Booking collection, in insertion order
    req,        \* the POST /bookings request being handled, or NoReq
    resp,       \* the response sent to the most recent request, or NoResp
    waiting     \* bag of the other requests in flight, each suspended at an await

vars == <<cart, storage, queued, calls, result, catalog, bookings, req, resp, waiting>>
cartVars == <<cart, storage, queued, calls, result>>
serverVars == <<catalog, bookings, req, resp, waiting>>

---------------------------------------------------------------------------
(* Bounds of the model *)

\* largest total number of units the cart is driven to
MaxUnits == 2
\* largest number of createBooking calls in flight at once
MaxCalls == 1
\* the same where createBooking is invoked again before an earlier call has settled
MaxInFlight == 2

---------------------------------------------------------------------------
(* Values shared by both components *)

\* JSON texts, by their syntax
JNull == [t |-> "null"]
JBool(b) == [t |-> "bool", v |-> b]
JNumber(n) == [t |-> "number", v |-> n]
JString(s) == [t |-> "string", v |-> s]
JArray(elements) == [t |-> "array", v |-> elements]
JObject(members) == [t |-> "object", v |-> members]

\* null.  Where a value may be null or a string, as the error of the cart is, both
\* are held the way JSON writes them: null is no string, whatever the string reads
Null == JNull

\* the product identifiers (Mongo ObjectIds), each held as the text toString() gives
\* for it: 24 hexadecimal digits, the letters in lower case
ProductIds == {"p1", "p2"}

\* the same digits with the letters in upper case: another text of the same ObjectId
toUpperCase(text) ==
    CASE text = "p1" -> "P1"
      [] text = "p2" -> "P2"
      [] OTHER -> text
UpperCaseIds == { toUpperCase(p) : p \in ProductIds }

\* the ObjectId a text is cast to; a text that is cast to none is left as it is
castObjectId(text) ==
    IF text \in UpperCaseIds THEN CHOOSE p \in ProductIds : toUpperCase(p) = text
    ELSE text

\* the authenticated identities (req.user.userId)
Users == {"u1"}
\* the owner a client may claim in a request body
ForgedUserId == "u2"

\* an ObjectId that no product has (new mongoose.Types.ObjectId() of the route tests)
NonExistentId == "o1"

\* the strings that are ObjectIds
ObjectIds == ProductIds \cup Users \cup {ForgedUserId, NonExistentId}

\* the listings of the catalog over time, prices in mills: p1 at 10.00 and, after a
\* price change, at 1.005; p2 at 15.50
\* (Product.price is any finite number >= 0, not restricted to whole cents; the double
\* nearest to 1.005 lies below it, the one nearest to 32.005 above it)
Listings ==
    { [_id |-> "p1", name |-> "Test Product 1", category |-> "food", price |-> 10000],
      [_id |-> "p1", name |-> "Test Product 1", category |-> "food", price |-> 1005],
      [_id |-> "p2", name |-> "Test Product 2", category |-> "tools", price |-> 15500] }

Cent == 10

\* messages of the error envelopes of POST /bookings
MsgValidation == "Validation failed"
MsgNotAvailable == "One or more products are not available"
MsgCreateFailed == "Failed to create booking"
MsgCreated == "Booking created successfully"

---------------------------------------------------------------------------
(* Cart Store: pure helpers of cartReducer *)

\* Array.prototype.findIndex(item => item.product._id === id); 0 stands for -1
findIndex(items, id) ==
    IF \E i \in 1..Len(items) : items[i].product._id = id
    THEN CHOOSE i \in 1..Len(items) :
            /\ items[i].product._id = id
            /\ \A j \in 1..(i - 1) : items[j].product._id # id
    ELSE 0

\* newItems.reduce((sum, item) => sum + item.quantity, 0)
RECURSIVE reduceQuantity(_)
reduceQuantity(items) ==
    IF items = << >> THEN 0
    ELSE reduceQuantity(SubSeq(items, 1, Len(items) - 1)) + items[Len(items)].quantity

\* A JavaScript Number is a binary double.  An amount in mills written alone stands
\* for the double nearest to it, which is what a decimal literal and a JSON number
\* denote.  The result of arithmetic is held as Double(mills, err): the double whose
\* value is exactly mills/1000 + err/(1000 * 2^62).  Every double from 0.001 up to
\* 1024 in magnitude is of this form with err an integer below 2^30, which is the
\* range of amounts of the model.
Double(mills, err) == [mills |-> mills, err |-> err]

\* 2^k modulo 2000, for k = 1, 2, ...
RECURSIVE powersOfTwo(_)
powersOfTwo(n) ==
    IF n = 0 THEN << >>
    ELSE LET ps == powersOfTwo(n - 1)
         IN Append(ps, IF n = 1 THEN 2 ELSE (2 * ps[n - 1]) % 2000)
PowersOfTwo == powersOfTwo(80)

\* 2^k modulo n, for n = 1000 or 2000 and k >= 1
pow2mod(k, n) == PowersOfTwo[k] % n

\* the binary exponent e of a positive amount: 2^e <= mills/1000 < 2^(e+1)
RECURSIVE binaryExponent(_)
binaryExponent(mills) ==
    IF mills < 1000 THEN binaryExponent(2 * mills) - 1
    ELSE IF mills >= 2000 THEN binaryExponent(mills \div 2) + 1
    ELSE 0

\* the binary exponent of the positive real mills/1000 + err/(1000 * 2^62): below a
\* power of two the binade beneath it begins
exponentOf(mills, err) ==
    LET e == binaryExponent(mills)
        isPowerOfTwo == IF e >= 0 THEN mills = 1000 * (2^e)
                        ELSE mills * (2^(0 - e)) = 1000
    IN IF err < 0 /\ isPowerOfTwo THEN e - 1 ELSE e

\* the distance between neighbouring doubles of exponent e, in the unit of err
ulp(e) == 1000 * (2^(10 + e))

\* the double nearest to the positive real mills/1000 + err/(1000 * 2^62), of two
\* that are equally near the one with the even significand: with k = 52 - e the
\* doubles of exponent e are the multiples of 2^(-k), and mills/1000 is q0 of them
\* and r0 units of err more
roundPositive(mills, err) ==
    LET e == exponentOf(mills, err)
        k == 52 - e
        G == ulp(e)
        r0 == (G \div 1000) * (((mills % 1000) * pow2mod(k, 1000)) % 1000)
        q0odd == ((mills % 2000) * pow2mod(k, 2000)) % 2000 >= 1000
        t == r0 + err
        R == t % G
        Qodd == q0odd # ((t \div G) % 2 = 1)
        down == R < G - R \/ (R = G - R /\ ~Qodd)
    IN Double(mills, IF down THEN err - R ELSE err + (G - R))

\* the result of an arithmetic operation whose exact value is
\* mills/1000 + err/(1000 * 2^62): IEEE 754 round to nearest, ties to even (a whole
\* number of eighths is a double, and is the result as it is)
roundToDouble(mills, err) ==
    IF err = 0 /\ mills % 125 = 0 THEN Double(mills, 0)
    ELSE IF mills < 0
    THEN LET r == roundPositive(0 - mills, 0 - err) IN Double(mills, 0 - r.err)
    ELSE roundPositive(mills, err)

\* the double an amount in mills stands for
Number(mills) == roundToDouble(mills, 0)

\* price * quantity, of a price in mills and a whole quantity
times(price, quantity) ==
    roundToDouble(price * quantity, quantity * Number(price).err)

\* a + b of two doubles
plus(a, b) == roundToDouble(a.mills + b.mills, a.err + b.err)

\* newItems.reduce((sum, item) => sum + (item.price * item.quantity), 0)
RECURSIVE reduceAmount(_)
reduceAmount(items) ==
    IF items = << >> THEN Double(0, 0)
    ELSE plus(reduceAmount(SubSeq(items, 1, Len(items) - 1)),
              times(items[Len(items)].price, items[Len(items)].quantity))

\* parseFloat(x.toFixed(2)) on a non-negative double: the whole cent nearest to it,
\* as an amount in mills; of two that are equally near (the double is exactly on the
\* half cent) toFixed takes the larger
toFixed2_NoRounding(x) == x.mills
toFixed2(x) ==
    IF x.mills % Cent = Cent \div 2 /\ x.err < 0
    THEN (x.mills \div Cent) * Cent
    ELSE ((x.mills + (Cent \div 2)) \div Cent) * Cent

initialState ==
    [items |-> << >>, totalItems |-> 0, totalAmount |-> 0,
     loading |-> FALSE, error |-> Null]


---------------------------------------------------------------------------
(* Cart Store: the storage entry 'cart' *)

\* localStorage.getItem('cart') returns null: there is no entry
NoEntry == [kind |-> "absent"]

\* the entry whose text is empty
EmptyEntry == [kind |-> "empty"]

\* an entry whose text is not empty and is no JSON: JSON.parse throws a SyntaxError
\* on it
CorruptEntry == [kind |-> "corrupt"]

\* the JSON text of a product held by a line
stringifyProduct(product) ==
    JObject([k \in DOMAIN product |->
                IF k = "price" THEN JNumber(product[k]) ELSE JString(product[k])])

\* the JSON text of a line
stringifyItem(item) ==
    JObject([product |-> stringifyProduct(item.product),
             quantity |-> JNumber(item.quantity),
             price |-> JNumber(item.price)])

\* the JSON text of the lines
stringifyItems(items) == JArray([i \in 1..Len(items) |-> stringifyItem(items[i])])

\* JSON.stringify(state): the text of an object with every field of the state (the
\* error, and a field that is none of initialState's, is held as its JSON text)
JSONstringify(state) ==
    [kind |-> "json",
     text |-> JObject([f \in DOMAIN state |->
                CASE f = "items" -> stringifyItems(state.items)
                  [] f = "totalItems" -> JNumber(state.totalItems)
                  [] f = "totalAmount" -> JNumber(state.totalAmount)
                  [] f = "loading" -> JBool(state.loading)
                  [] OTHER -> state[f]])]

\* the value a JSON text denotes
RECURSIVE jsonValue(_)
jsonValue(j) ==
    CASE j.t = "null" -> Null
      [] j.t = "array" -> [i \in 1..Len(j.v) |-> jsonValue(j.v[i])]
      [] j.t = "object" -> [k \in DOMAIN j.v |-> jsonValue(j.v[k])]
      [] OTHER -> j.v

\* JSON.parse(savedCart) of a text that is JSON: the type of the value and the value.
\* The items, totals and loading of an object are the values the reducer works on;
\* the error, any other member, and what an array or a string holds, is kept as its
\* JSON text
JSONparse(entry) ==
    LET j == entry.text
    IN CASE j.t = "object" ->
                [type |-> "object",
                 value |-> [k \in DOMAIN j.v |->
                              IF k \in DOMAIN initialState \ {"error"}
                              THEN jsonValue(j.v[k])
                              ELSE j.v[k]]]
         [] j.t = "null" -> [type |-> "null", value |-> Null]
         [] OTHER -> [type |-> j.t, value |-> j.v]

\* the property names of a list or string of n elements: "0" .. "n-1"
indexKeys(n) == { ToString(i - 1) : i \in 1..n }

\* the position a property name of a list or string stands for
indexOf(key, n) == CHOOSE i \in 1..n : ToString(i - 1) = key

\* { ...payload }: the own enumerable properties of a value JSON.parse returned: the
\* members of an object, the elements of an array and the characters of a string
\* under their indices, and none of null, a boolean or a number
spread(payload) ==
    CASE payload.type = "object" -> payload.value
      [] payload.type = "array" ->
            [k \in indexKeys(Len(payload.value)) |->
                payload.value[indexOf(k, Len(payload.value))]]
      [] payload.type = "string" ->
            [k \in indexKeys(Len(payload.value)) |->
                LET i == indexOf(k, Len(payload.value))
                IN JString(SubSeq(payload.value, i, i))]
      [] OTHER -> << >>

\* useEffect(() => localStorage.setItem('cart', JSON.stringify(state)), [state])
saveEffect_ItemsOnly(state) ==
    [kind |-> "json", text |-> JObject([items |-> stringifyItems(state.items)])]
saveEffect(state) == JSONstringify(state)

---------------------------------------------------------------------------
(* Cart Store: the cases of cartReducer *)

ADD_ITEM_AppendAlways(state, product, quantity) ==
    LET newItems == Append(state.items,
                           [product |-> product, quantity |-> quantity,
                            price |-> product.price])
    IN [state EXCEPT !.items = newItems,
                     !.totalItems = reduceQuantity(newItems),
                     !.totalAmount = toFixed2(reduceAmount(newItems)),
                     !.error = Null]

\* on a merge the line takes the product passed in and its price
ADD_ITEM_Resnapshot(state, product, quantity) ==
    LET existingItemIndex == findIndex(state.items, product._id)
        newItems ==
            IF existingItemIndex > 0
            THEN [i \in 1..Len(state.items) |->
                    IF i = existingItemIndex
                    THEN [product |-> product,
                          quantity |-> state.items[i].quantity + quantity,
                          price |-> product.price]
                    ELSE state.items[i]]
            ELSE Append(state.items,
                        [product |-> product, quantity |-> quantity,
                         price |-> product.price])
    IN [state EXCEPT !.items = newItems,
                     !.totalItems = reduceQuantity(newItems),
                     !.totalAmount = toFixed2(reduceAmount(newItems)),
                     !.error = Null]

ADD_ITEM(state, product, quantity) ==
    LET existingItemIndex == findIndex(state.items, product._id)
        newItems ==
            IF existingItemIndex > 0
            THEN [i \in 1..Len(state.items) |->
                    IF i = existingItemIndex
                    THEN [state.items[i] EXCEPT !.quantity = @ + quantity]
                    ELSE state.items[i]]
            ELSE Append(state.items,
                        [product |-> product, quantity |-> quantity,
                         price |-> product.price])
    IN [state EXCEPT !.items = newItems,
                     !.totalItems = reduceQuantity(newItems),
                     !.totalAmount = toFixed2(reduceAmount(newItems)),
                     !.error = Null]

\* items.splice(items.findIndex(...), 1): an absent id removes the last line
REMOVE_ITEM_Splice(state, productId) ==
    LET index == findIndex(state.items, productId)
        newItems == IF index > 0
                    THEN SubSeq(state.items, 1, index - 1)
                            \o SubSeq(state.items, index + 1, Len(state.items))
                    ELSE SubSeq(state.items, 1, Len(state.items) - 1)
    IN [state EXCEPT !.items = newItems,
                     !.totalItems = reduceQuantity(newItems),
                     !.totalAmount = toFixed2(reduceAmount(newItems))]

\* the error is reset as ADD_ITEM resets it
REMOVE_ITEM_ClearsError(state, productId) ==
    LET keep(item) == item.product._id # productId
        newItems == SelectSeq(state.items, keep)
    IN [state EXCEPT !.items = newItems,
                     !.totalItems = reduceQuantity(newItems),
                     !.totalAmount = toFixed2(reduceAmount(newItems)),
                     !.error = Null]

REMOVE_ITEM(state, productId) ==
    LET keep(item) == item.product._id # productId
        newItems == SelectSeq(state.items, keep)
    IN [state EXCEPT !.items = newItems,
                     !.totalItems = reduceQuantity(newItems),
                     !.totalAmount = toFixed2(reduceAmount(newItems))]

\* Math.max(0, quantity)
max0(quantity) == IF quantity > 0 THEN quantity ELSE 0

\* the matching line is set to max(0, quantity) and stays in the cart
UPDATE_QUANTITY_NoFilter(state, productId, quantity) ==
    LET newItems == [i \in 1..Len(state.items) |->
                       IF state.items[i].product._id = productId
                       THEN [state.items[i] EXCEPT !.quantity = max0(quantity)]
                       ELSE state.items[i]]
    IN [state EXCEPT !.items = newItems,
                     !.totalItems = reduceQuantity(newItems),
                     !.totalAmount = toFixed2(reduceAmount(newItems))]

\* lines are dropped only when their quantity is negative
UPDATE_QUANTITY_DropNegativeOnly(state, productId, quantity) ==
    LET mapped == [i \in 1..Len(state.items) |->
                     IF state.items[i].product._id = productId
                     THEN [state.items[i] EXCEPT !.quantity = max0(quantity)]
                     ELSE state.items[i]]
        notNegative(item) == item.quantity >= 0
        newItems == SelectSeq(mapped, notNegative)
    IN [state EXCEPT !.items = newItems,
                     !.totalItems = reduceQuantity(newItems),
                     !.totalAmount = toFixed2(reduceAmount(newItems))]

UPDATE_QUANTITY(state, productId, quantity) ==
    LET mapped == [i \in 1..Len(state.items) |->
                     IF state.items[i].product._id = productId
                     THEN [state.items[i] EXCEPT !.quantity = max0(quantity)]
                     ELSE state.items[i]]
        positive(item) == item.quantity > 0
        newItems == SelectSeq(mapped, positive)
    IN [state EXCEPT !.items = newItems,
                     !.totalItems = reduceQuantity(newItems),
                     !.totalAmount = toFixed2(reduceAmount(newItems))]

CLEAR_CART_KeepTotals(state) == [state EXCEPT !.items = << >>]

\* return initialState: error and loading are reset with the lines
CLEAR_CART_Reset(state) ==
    [items |-> << >>, totalItems |-> 0, totalAmount |-> 0,
     loading |-> FALSE, error |-> Null]

CLEAR_CART(state) ==
    [state EXCEPT !.items = << >>, !.totalItems = 0, !.totalAmount = 0]

SET_LOADING(state, payload) == [state EXCEPT !.loading = payload]

SET_ERROR(state, payload) ==
    [state EXCEPT !.error = payload, !.loading = FALSE]

CLEAR_ERROR(state) == [state EXCEPT !.error = Null]

\* { ...state, ...action.payload }: every own property of the payload replaces the
\* state's field of its name or becomes a further field
LOAD_CART_ItemsOnly(state, payload) ==
    LET own == spread(payload)
    IN [f \in DOMAIN state |->
            IF f = "items" /\ f \in DOMAIN own THEN own[f] ELSE state[f]]

LOAD_CART(state, payload) ==
    LET own == spread(payload)
    IN [f \in DOMAIN state \cup DOMAIN own |->
            IF f \in DOMAIN own THEN own[f] ELSE state[f]]

\* cartReducer(state, action)
cartReducer(state, action) ==
    CASE action.type = "ADD_ITEM" ->
            ADD_ITEM(state, action.payload.product, action.payload.quantity)
      [] action.type = "REMOVE_ITEM" -> REMOVE_ITEM(state, action.payload)
      [] action.type = "UPDATE_QUANTITY" ->
            UPDATE_QUANTITY(state, action.payload.productId, action.payload.quantity)
      [] action.type = "CLEAR_CART" -> CLEAR_CART(state)
      [] action.type = "SET_LOADING" -> SET_LOADING(state, action.payload)
      [] action.type = "SET_ERROR" -> SET_ERROR(state, action.payload)
      [] action.type = "CLEAR_ERROR" -> CLEAR_ERROR(state)
      [] action.type = "LOAD_CART" -> LOAD_CART(state, action.payload)
      [] OTHER -> state

---------------------------------------------------------------------------
(* Catalog: the Product collection *)

NoDoc == [kind |-> "none"]

\* the Product document of a listing (no image is set); inStock defaults to true
ProductDoc(listing, inStock) ==
    [kind |-> "doc", name |-> listing.name, category |-> listing.category,
     price |-> listing.price, inStock |-> inStock]

\* a document as a query returns it
document(cat, p) ==
    [_id |-> p, name |-> cat[p].name, category |-> cat[p].category,
     price |-> cat[p].price, inStock |-> cat[p].inStock]

\* the documents product id p may have over time
ProductDocs(p) ==
    { ProductDoc(l, inStock) :
        l \in { x \in Listings : x._id = p }, inStock \in BOOLEAN }

\* Product.find({ _id: { $in: productIds }, inStock: true }): the texts are cast to
\* ObjectIds and the matching documents returned, each once, whatever the number of
\* times its id is listed
ProductFind_IgnoreStock(cat, productIds) ==
    { document(cat, p) :
        p \in { q \in ProductIds :
                  /\ \E i \in 1..Len(productIds) : castObjectId(productIds[i]) = q
                  /\ cat[q].kind = "doc" } }

ProductFind(cat, productIds) ==
    { document(cat, p) :
        p \in { q \in ProductIds :
                  /\ \E i \in 1..Len(productIds) : castObjectId(productIds[i]) = q
                  /\ cat[q].kind = "doc"
                  /\ cat[q].inStock = TRUE } }

---------------------------------------------------------------------------
(* Booking model: schema validation and the pre-save hook *)

BookingStatuses == {"pending", "confirmed", "completed", "cancelled"}

\* a line given to new Booking, its productId cast to the schema type
castLine(line) ==
    IF "productId" \in DOMAIN line
    THEN [line EXCEPT !.productId = castObjectId(@)]
    ELSE line

RECURSIVE castLines(_)
castLines(lines) ==
    IF lines = << >> THEN << >>
    ELSE <<castLine(Head(lines))>> \o castLines(Tail(lines))

\* new Booking(fields): the values are cast to the schema types (a text to the
\* ObjectId it denotes, a number to the double it stands for); products defaults to
\* the empty list and status to 'pending'; userId and totalAmount stay unset unless
\* they are given
NewBooking(fields) ==
    LET given == fields @@ [products |-> << >>, status |-> "pending"]
        owned == IF "userId" \in DOMAIN fields
                 THEN [given EXCEPT !.userId = castObjectId(@)]
                 ELSE given
        totalled == IF "totalAmount" \in DOMAIN fields
                    THEN [owned EXCEPT !.totalAmount = Number(@)]
                    ELSE owned
    IN [totalled EXCEPT !.products = castLines(@)]

\* the cast of a value to the schema type ObjectId succeeds
castsToObjectId(v) == castObjectId(v) \in ObjectIds

\* mongoose.Types.ObjectId.isValid(v)
isValidObjectId(v) == castObjectId(v) \in ObjectIds

\* Number.isInteger(quantity) of a line: a quantity that is no whole number is held
\* as its whole part in quantity and the rest, in thousandths, in fraction
isInteger(line) == "fraction" \notin DOMAIN line

\* Number.isFinite(v): every number of the model is finite
isFinite(v) == v \in Int

\* the messages of the ValidationError of bookingSchema; the empty set when the
\* document is valid.  A path reports the first of its validators that fails, in
\* the order required, min, validate; a path whose value could not be cast reports
\* the cast and nothing else
BookingValidationErrors_NoQuantityMin(doc) ==
    LET userIdErrors ==
            IF "userId" \notin DOMAIN doc THEN {"User ID is required"}
            ELSE IF ~castsToObjectId(doc.userId) THEN {"Cast to ObjectId failed"}
            ELSE IF ~isValidObjectId(doc.userId) THEN {"User ID must be a valid ObjectId"}
            ELSE {}
        productIdErrors(line) ==
            IF "productId" \notin DOMAIN line THEN {"Product ID is required"}
            ELSE IF ~castsToObjectId(line.productId) THEN {"Cast to ObjectId failed"}
            ELSE IF ~isValidObjectId(line.productId)
            THEN {"Product ID must be a valid ObjectId"}
            ELSE {}
        quantityErrors(line) ==
            IF "quantity" \notin DOMAIN line THEN {"Quantity is required"}
            ELSE
                    IF ~isInteger(line) THEN {"Quantity must be a whole number"}
                    ELSE {}
        priceErrors(line) ==
            IF "price" \notin DOMAIN line THEN {"Price is required"}
            ELSE IF line.price < 0 THEN {"Price cannot be negative"}
            ELSE IF ~(isFinite(line.price) /\ line.price >= 0)
            THEN {"Price must be a valid positive number"}
            ELSE {}
        productsErrors ==
            IF Len(doc.products) = 0 THEN {"Booking must contain at least one product"}
            ELSE UNION { productIdErrors(doc.products[i])
                            \cup quantityErrors(doc.products[i])
                            \cup priceErrors(doc.products[i]) :
                         i \in 1..Len(doc.products) }
        totalAmountErrors ==
            IF "totalAmount" \notin DOMAIN doc THEN {}
            ELSE IF doc.totalAmount.mills < 0 THEN {"Total amount cannot be negative"}
            ELSE IF ~(isFinite(doc.totalAmount.mills) /\ doc.totalAmount.mills >= 0)
            THEN {"Total amount must be a valid positive number"}
            ELSE {}
        statusErrors ==
            IF doc.status \notin BookingStatuses
            THEN {"Status must be one of: pending, confirmed, completed, cancelled"}
            ELSE {}
    IN userIdErrors \cup productsErrors \cup totalAmountErrors \cup statusErrors

BookingValidationErrors(doc) ==
    LET userIdErrors ==
            IF "userId" \notin DOMAIN doc THEN {"User ID is required"}
            ELSE IF ~castsToObjectId(doc.userId) THEN {"Cast to ObjectId failed"}
            ELSE IF ~isValidObjectId(doc.userId) THEN {"User ID must be a valid ObjectId"}
            ELSE {}
        productIdErrors(line) ==
            IF "productId" \notin DOMAIN line THEN {"Product ID is required"}
            ELSE IF ~castsToObjectId(line.productId) THEN {"Cast to ObjectId failed"}
            ELSE IF ~isValidObjectId(line.productId)
            THEN {"Product ID must be a valid ObjectId"}
            ELSE {}
        quantityErrors(line) ==
            IF "quantity" \notin DOMAIN line THEN {"Quantity is required"}
            ELSE
                    IF line.quantity < 1 THEN {"Quantity must be at least 1"}
                    ELSE IF ~isInteger(line) THEN {"Quantity must be a whole number"}
                    ELSE {}
        priceErrors(line) ==
            IF "price" \notin DOMAIN line THEN {"Price is required"}
            ELSE IF line.price < 0 THEN {"Price cannot be negative"}
            ELSE IF ~(isFinite(line.price) /\ line.price >= 0)
            THEN {"Price must be a valid positive number"}
            ELSE {}
        productsErrors ==
            IF Len(doc.products) = 0 THEN {"Booking must contain at least one product"}
            ELSE UNION { productIdErrors(doc.products[i])
                            \cup quantityErrors(doc.products[i])
                            \cup priceErrors(doc.products[i]) :
                         i \in 1..Len(doc.products) }
        totalAmountErrors ==
            IF "totalAmount" \notin DOMAIN doc THEN {}
            ELSE IF doc.totalAmount.mills < 0 THEN {"Total amount cannot be negative"}
            ELSE IF ~(isFinite(doc.totalAmount.mills) /\ doc.totalAmount.mills >= 0)
            THEN {"Total amount must be a valid positive number"}
            ELSE {}
        statusErrors ==
            IF doc.status \notin BookingStatuses
            THEN {"Status must be one of: pending, confirmed, completed, cancelled"}
            ELSE {}
    IN userIdErrors \cup productsErrors \cup totalAmountErrors \cup statusErrors

\* the quantities are left out of the sum
RECURSIVE reduceTotal_IgnoreQuantity(_)
reduceTotal_IgnoreQuantity(products) ==
    IF products = << >> THEN Double(0, 0)
    ELSE plus(reduceTotal_IgnoreQuantity(SubSeq(products, 1, Len(products) - 1)),
              Number(products[Len(products)].price))

\* products.reduce((total, product) => total + (product.price * product.quantity), 0)
RECURSIVE reduceTotal(_)
reduceTotal(products) ==
    IF products = << >> THEN Double(0, 0)
    ELSE plus(reduceTotal(SubSeq(products, 1, Len(products) - 1)),
              times(products[Len(products)].price, products[Len(products)].quantity))

\* bookingSchema.pre('save'): totalAmount is recomputed when there are products
preSave_KeepSupplied(doc) ==
    IF "totalAmount" \in DOMAIN doc THEN doc
    ELSE [totalAmount |-> reduceTotal(doc.products)] @@ doc

preSave(doc) ==
    IF Len(doc.products) > 0
    THEN [totalAmount |-> reduceTotal(doc.products)] @@ doc
    ELSE doc

\* booking.save(): validation runs first, then the pre-save hook, then the insert
BookingSave(doc) ==
    LET errors == BookingValidationErrors(doc)
    IN IF errors # {}
       THEN [ok |-> FALSE, errors |-> errors]
       ELSE [ok |-> TRUE, doc |-> preSave(doc)]

---------------------------------------------------------------------------
(* Booking Service: POST /api/user/bookings *)

\* largest number of entries of a request's products list
MaxLines == 2
\* requests are followed while the collection holds fewer bookings than this
MaxBookings == 1

\* productId values of request entries: the valid ObjectIds and one that is none
RequestIds == ProductIds \cup {"invalid_id"}
\* quantity values of request entries: those of the route tests (0 is rejected)
RequestQuantities == {0, 1, 2}
\* prices and total a client may put in the request: 0.01
ClientPrices == {10}

\* entries as the route tests send them, and as the Cart Store sends them
BareEntries == [productId : RequestIds, quantity : RequestQuantities]
PricedEntries ==
    [productId : RequestIds, quantity : RequestQuantities, price : ClientPrices]

SeqsUpTo(S, n) == UNION { [1..k -> S] : k \in 0..n }

\* an entry that names p1 with the letters of its id in upper case
UpperCaseEntry == [productId |-> toUpperCase("p1"), quantity |-> 1]

\* entries whose quantity is no whole number: 0.5 and 1.5 of p1
FractionalEntries == [productId : {"p1"}, quantity : {0, 1}, fraction : {500}]

\* the status a client may add to the body, with the owner it claims
ForgedStatus == "confirmed"

\* request bodies: products is a list of entries of one shape, or no list at all; an
\* entry may spell the id of p1 in upper case, name a product that does not exist or
\* ask for a quantity that is no whole number
RequestBodies ==
    { [isArray |-> FALSE] }
    \cup { [isArray |-> TRUE, products |-> <<e>> \o ps] :
            e \in {UpperCaseEntry, [productId |-> NonExistentId, quantity |-> 1]}
                    \cup FractionalEntries,
            ps \in SeqsUpTo({[productId |-> "p2", quantity |-> 1]}, 1) }
    \cup { [isArray |-> TRUE, products |-> ps] : ps \in SeqsUpTo(BareEntries, MaxLines) }
    \cup { [isArray |-> TRUE, products |-> ps,
            userId |-> ForgedUserId, status |-> ForgedStatus] :
            ps \in SeqsUpTo(BareEntries, 1) }
    \cup { [isArray |-> TRUE, products |-> ps, totalAmount |-> t] :
            ps \in SeqsUpTo(PricedEntries, MaxLines), t \in ClientPrices }

\* isMongoId(): 24 hexadecimal digits, the letters in either case, whether or not a
\* document has the id
isMongoId(v) == castObjectId(v) \in ObjectIds

\* isInt({ min: 1 }) of the quantity of an entry: a whole number, 1 or more
isInt_Min0(entry) == isInteger(entry) /\ entry.quantity >= 0
isIntMin1(entry) == isInteger(entry) /\ entry.quantity >= 1

\* the messages validationResult(req) holds
validationResult(body) ==
    { m \in { "Products array is required and must contain at least one item",
              "Product ID must be a valid MongoDB ObjectId",
              "Quantity must be a positive integer" } :
        \/ /\ m = "Products array is required and must contain at least one item"
           /\ (~body.isArray \/ Len(body.products) < 1)
        \/ /\ m = "Product ID must be a valid MongoDB ObjectId"
           /\ body.isArray
           /\ \E i \in 1..Len(body.products) : ~isMongoId(body.products[i].productId)
        \/ /\ m = "Quantity must be a positive integer"
           /\ body.isArray
           /\ \E i \in 1..Len(body.products) : ~isIntMin1(body.products[i]) }

\* responses
NoResp == [kind |-> "none"]
ErrorResponse(status, message, code) ==
    [kind |-> "response", status |-> status, success |-> FALSE,
     message |-> message, code |-> code]
Created(booking) ==
    [kind |-> "response", status |-> 201, success |-> TRUE,
     message |-> MsgCreated, booking |-> booking]

ValidationError == ErrorResponse(400, MsgValidation, "VALIDATION_ERROR")
ProductsNotAvailable == ErrorResponse(400, MsgNotAvailable, "PRODUCTS_NOT_AVAILABLE")
\* (the catch answers with the generic message, not with error.message)
BookingCreateError_RawMessage ==
    ErrorResponse(500, "connect ECONNREFUSED 127.0.0.1:27017", "BOOKING_CREATE_ERROR")
BookingCreateError == ErrorResponse(500, MsgCreateFailed, "BOOKING_CREATE_ERROR")

\* products.map(p => p.productId)
productIdsOf(products) == [i \in 1..Len(products) |-> products[i].productId]

\* existingProducts.length !== productIds.length
notAllAvailable(existingProducts, productIds) ==
    Cardinality(existingProducts) # Len(productIds)

\* undefined
Undefined == [kind |-> "undefined"]

\* existingProducts.find(p => p._id.toString() === orderProduct.productId): the text
\* of the document's id is compared with the text of the request
findProduct(existingProducts, productId) ==
    IF \E p \in existingProducts : p._id = productId
    THEN CHOOSE p \in existingProducts : p._id = productId
    ELSE Undefined

\* the lines of the booking: quantity of the request, price of the fetched product
bookingProducts_ClientPrice(products, existingProducts) ==
    [i \in 1..Len(products) |->
        [productId |-> products[i].productId,
         quantity |-> products[i].quantity,
         price |-> IF "price" \in DOMAIN products[i] THEN products[i].price
                   ELSE findProduct(existingProducts, products[i].productId).price]]

bookingProducts(products, existingProducts) ==
    [i \in 1..Len(products) |->
        [productId |-> products[i].productId,
         quantity |-> products[i].quantity,
         price |-> findProduct(existingProducts, products[i].productId).price]]

\* the fields new Booking is given: the authenticated identity and the lines
bookingFields_SpreadBody(user, body, lines) ==
    [f \in {"userId", "products"} \cup (DOMAIN body \cap {"status"}) |->
        IF f = "products" THEN lines
        ELSE IF f \in DOMAIN body THEN body[f]
        ELSE user]

bookingFields(user, body, lines) == [userId |-> user, products |-> lines]

NoReq == [kind |-> "none"]

\* the handler of a request with this identity and body, up to its first await: with
\* validation errors it answers at once, otherwise it issues the catalog query
handle(user, body) ==
    /\ IF validationResult(body) # {}
       THEN /\ resp' = ValidationError
            /\ req' = NoReq
       ELSE /\ resp' = NoResp
            /\ req' = [kind |-> "request", pc |-> "find", user |-> user, body |-> body]
    /\ UNCHANGED <<catalog, bookings, cartVars, waiting>>

\* a request arrives
receive ==
    /\ req = NoReq
    /\ resp = NoResp
    /\ Len(bookings) < MaxBookings
    /\ \E user \in Users, body \in RequestBodies : handle(user, body)

\* Product.find resolves: the availability check, then the booking is constructed
\* and its save is issued
findResolved ==
    /\ req.kind = "request" /\ req.pc = "find"
    /\ LET productIds == productIdsOf(req.body.products)
           existingProducts == ProductFind(catalog, productIds)
       IN IF notAllAvailable(existingProducts, productIds)
          THEN /\ resp' = ProductsNotAvailable
               /\ req' = NoReq
          ELSE IF \E i \in 1..Len(productIds) :
                    findProduct(existingProducts, productIds[i]) = Undefined
          THEN \* product is undefined: product.price throws, the catch answers
               /\ resp' = BookingCreateError
               /\ req' = NoReq
          ELSE /\ resp' = NoResp
               /\ req' = [kind |-> "request", pc |-> "save", user |-> req.user,
                          body |-> req.body, existing |-> existingProducts,
                          booking |-> NewBooking(
                              bookingFields(req.user, req.body,
                                            bookingProducts(req.body.products,
                                                            existingProducts)))]
    /\ UNCHANGED <<catalog, bookings, cartVars, waiting>>

\* the save is refused when a booked product is no longer in stock at the booked price
saveSettled_Recheck ==
    /\ req.kind = "request" /\ req.pc = "save"
    /\ LET saved == BookingSave(req.booking)
           current == \A i \in 1..Len(req.booking.products) :
                          LET doc == catalog[req.booking.products[i].productId]
                          IN IF doc.kind = "doc"
                             THEN doc.inStock /\ doc.price = req.booking.products[i].price
                             ELSE FALSE
       IN IF saved.ok /\ current
          THEN /\ bookings' = Append(bookings, saved.doc)
               /\ req' = [req EXCEPT !.pc = "populate", !.booking = saved.doc]
               /\ resp' = NoResp
          ELSE /\ bookings' = bookings
               /\ req' = NoReq
               /\ resp' = BookingCreateError
    /\ UNCHANGED <<catalog, cartVars, waiting>>

\* a booking equal to one the collection holds is not inserted again
saveSettled_Dedup ==
    /\ req.kind = "request" /\ req.pc = "save"
    /\ LET saved == BookingSave(req.booking)
       IN IF saved.ok
          THEN /\ bookings' = IF \E i \in 1..Len(bookings) : bookings[i] = saved.doc
                              THEN bookings
                              ELSE Append(bookings, saved.doc)
               /\ req' = [req EXCEPT !.pc = "populate", !.booking = saved.doc]
               /\ resp' = NoResp
          ELSE /\ bookings' = bookings
               /\ req' = NoReq
               /\ resp' = BookingCreateError
    /\ UNCHANGED <<catalog, cartVars, waiting>>

\* booking.save() resolves or rejects with a validation error
saveSettled ==
    /\ req.kind = "request" /\ req.pc = "save"
    /\ LET saved == BookingSave(req.booking)
       IN IF saved.ok
          THEN /\ bookings' = Append(bookings, saved.doc)
               /\ req' = [req EXCEPT !.pc = "populate", !.booking = saved.doc]
               /\ resp' = NoResp
          ELSE /\ bookings' = bookings
               /\ req' = NoReq
               /\ resp' = BookingCreateError
    /\ UNCHANGED <<catalog, cartVars, waiting>>

\* null in the place of a product document: the product has been removed
NoProduct == [kind |-> "null"]

\* booking.populate('products.productId', 'name price image category'): the productId
\* of every line is replaced by the product document the catalog holds for it now,
\* whether in stock or not, reduced to the selected fields (none of the documents
\* has an image), or by null when it holds none
populate(booking, cat) ==
    [booking EXCEPT !.products =
        [i \in 1..Len(booking.products) |->
            LET p == booking.products[i].productId
            IN [booking.products[i] EXCEPT !.productId =
                    IF cat[p].kind = "doc"
                    THEN [_id |-> p, name |-> cat[p].name, price |-> cat[p].price,
                          category |-> cat[p].category]
                    ELSE NoProduct]]]

\* booking.populate resolves: the 201 response carries the saved booking with its
\* products populated
populateResolved ==
    /\ req.kind = "request" /\ req.pc = "populate"
    /\ resp' = Created(populate(req.booking, catalog))
    /\ req' = NoReq
    /\ UNCHANGED <<catalog, bookings, cartVars, waiting>>

\* an awaited database operation rejects (storage unavailable): the catch answers
databaseFailed ==
    /\ req.kind = "request"
    /\ resp' = BookingCreateError
    /\ req' = NoReq
    /\ UNCHANGED <<catalog, bookings, cartVars, waiting>>

\* the response has reached the client: the exchange is over
responseDelivered ==
    /\ resp # NoResp
    /\ resp' = NoResp
    /\ UNCHANGED <<catalog, bookings, req, cartVars, waiting>>

\* the catalog is changed by its owners: a product is created, removed, repriced or
\* its inStock flag is set
catalogChanged(p, doc) ==
    /\ doc # catalog[p]
    /\ catalog' = [catalog EXCEPT ![p] = doc]
    /\ UNCHANGED <<bookings, req, resp, cartVars, waiting>>

ServerInit ==
    /\ catalog = [p \in ProductIds |-> NoDoc]
    /\ bookings = << >>
    /\ req = NoReq
    /\ resp = NoResp
    /\ waiting = EmptyBag

---------------------------------------------------------------------------
(* Cart Store: createBooking *)

\* bookingData built from the state of the render createBooking was called in
bookingData(state) ==
    [products |-> [i \in 1..Len(state.items) |->
                      [productId |-> state.items[i].product._id,
                       quantity |-> state.items[i].quantity,
                       price |-> state.items[i].price]],
     totalAmount |-> state.totalAmount]

\* if (state.items.length === 0) throw new Error('Cart is empty')
cartIsEmpty_Never(state) == FALSE
cartIsEmpty(state) == Len(state.items) = 0

NoResult == [kind |-> "none"]
Pending == [kind |-> "pending"]
Rejected(err) == [kind |-> "rejected", error |-> err]
Resolved(data) == [kind |-> "resolved", data |-> data]

\* error.response of the error a rejected userAPI.createBooking carries
NoResponse == [kind |-> "none"]
HttpResponse(status, data) == [kind |-> "http", status |-> status, data |-> data]
\* response.data: an error envelope { success: false, error: { message } }, or a body
\* that is no envelope
Envelope(message) == [kind |-> "envelope", message |-> message]
NoEnvelope == [kind |-> "other"]

ErrCartEmpty == [message |-> "Cart is empty", response |-> NoResponse]

\* api.post('/user/bookings', bookingData): the body the service receives
requestBody(payload) ==
    [isArray |-> TRUE, products |-> payload.products, totalAmount |-> payload.totalAmount]

\* response.data of the 201 response
responseData(response) ==
    [success |-> TRUE,
     data |-> [booking |-> response.booking, message |-> response.message]]

\* the states of the Product collection
Catalogs ==
    { cat \in [ProductIds -> UNION { ProductDocs(p) : p \in ProductIds } \cup {NoDoc}] :
        \A p \in ProductIds : cat[p] \in ProductDocs(p) \cup {NoDoc} }

\* those in which every product there is is in stock
StockedCatalogs ==
    { cat \in Catalogs : \A p \in ProductIds : cat[p].kind = "doc" => cat[p].inStock }

\* the bodies of the 201 responses of the Booking Service to a payload: the handler
\* run for a sender, a catalog its find met (the requested products, in stock) and a
\* catalog its populate met (each requested product at any of its listings, or
\* removed since).  What the catalog holds for other products has no part in it
ResponsesTo(payload) ==
    LET productIds == productIdsOf(payload.products)
        body == requestBody(payload)
        requested(p) == \E i \in 1..Len(productIds) : productIds[i] = p
        founds == { cat \in StockedCatalogs :
                      \A p \in ProductIds : (cat[p].kind = "doc") = requested(p) }
        showns == { cat \in StockedCatalogs :
                      \A p \in ProductIds : ~requested(p) => cat[p] = NoDoc }
        saves == { BookingSave(NewBooking(
                       bookingFields(user, body,
                                     bookingProducts(body.products,
                                                     ProductFind(cat, productIds))))) :
                   user \in Users, cat \in founds }
    IN IF validationResult(body) # {} THEN {}
       ELSE { responseData(Created(populate(x[1].doc, x[2]))) :
                x \in { save \in saves : save.ok } \X showns }

\* the body of a 2xx response that is none of the service's (an intermediary
\* answered in its place)
OtherBody == [other |-> "OK"]

\* response.data of the responses a call may be fulfilled with
ResponseBodies(payload) == ResponsesTo(payload) \cup {OtherBody}

\* errors userAPI.createBooking rejects with: an HTTP error response whose envelope
\* carries a message, one whose body is no envelope, or no response at all
CallErrors ==
    { [message |-> "Request failed with status code 400",
       response |-> HttpResponse(400, Envelope(MsgNotAvailable))],
      [message |-> "Request failed with status code 500",
       response |-> HttpResponse(500, Envelope(MsgCreateFailed))],
      [message |-> "Request failed with status code 502",
       response |-> HttpResponse(502, NoEnvelope)],
      [message |-> "Network Error", response |-> NoResponse] }

\* error.response?.data?.error?.message || 'Failed to create booking'
errorMessage_NoFallback(error) ==
    IF error.response.kind = "http" /\ error.response.data.kind = "envelope"
    THEN JString(error.response.data.message)
    ELSE Null

errorMessage(error) ==
    IF /\ error.response.kind = "http"
       /\ error.response.data.kind = "envelope"
       /\ error.response.data.message # ""
    THEN JString(error.response.data.message)
    ELSE JString("Failed to create booking")

---------------------------------------------------------------------------
(* Cart Store: operations of the CartProvider.  Every operation is called *)
(* from a render that shows the current state (none while an action of    *)
(* the load effect waits to be rendered), and the save effect runs after  *)
(* the state change it causes.                                            *)

\* no action waits to be rendered
NoAction == [type |-> "none"]

\* products the catalog pages hand to addToCart
CartProducts == Listings

\* the operations of the provider that dispatch one action and return nothing: the
\* reducer runs, the state is rendered and the save effect writes it
addToCart(product, quantity) ==
    /\ queued = NoAction
    /\ result' = NoResult
    /\ UNCHANGED <<queued, calls, serverVars>>
    /\ reduceQuantity(cart.items) + quantity <= MaxUnits
    /\ cart' = ADD_ITEM(cart, product, quantity)
    /\ storage' = saveEffect(cart')

removeFromCart(productId) ==
    /\ queued = NoAction
    /\ result' = NoResult
    /\ UNCHANGED <<queued, calls, serverVars>>
    /\ cart' = REMOVE_ITEM(cart, productId)
    /\ storage' = saveEffect(cart')

updateQuantity(productId, quantity) ==
    /\ queued = NoAction
    /\ result' = NoResult
    /\ UNCHANGED <<queued, calls, serverVars>>
    /\ cart' = UPDATE_QUANTITY(cart, productId, quantity)
    /\ reduceQuantity(cart'.items) <= MaxUnits
    /\ storage' = saveEffect(cart')

clearCart ==
    /\ queued = NoAction
    /\ result' = NoResult
    /\ UNCHANGED <<queued, calls, serverVars>>
    /\ cart' = CLEAR_CART(cart)
    /\ storage' = saveEffect(cart')

clearError ==
    /\ queued = NoAction
    /\ result' = NoResult
    /\ UNCHANGED <<queued, calls, serverVars>>
    /\ cart' = CLEAR_ERROR(cart)
    /\ storage' = saveEffect(cart')

\* createBooking on an empty cart: the guard throws before anything is dispatched
createBookingEmpty ==
    /\ queued = NoAction
    /\ cartIsEmpty(cart)
    /\ result' = Rejected(ErrCartEmpty)
    /\ UNCHANGED <<cart, storage, queued, calls, serverVars>>

\* createBooking on a cart with lines, up to its await: SET_LOADING, then the request
\* is sent
createBookingSent ==
    /\ queued = NoAction
    /\ ~cartIsEmpty(cart)
    /\ cart' = SET_LOADING(cart, TRUE)
    /\ storage' = saveEffect(cart')
    /\ calls' = calls (+) SetToBag({bookingData(cart)})
    /\ result' = Pending
    /\ UNCHANGED <<queued, serverVars>>

\* createBooking invoked while fewer than MaxCalls calls are in flight
createBookingCall ==
    /\ BagCardinality(calls) < MaxCalls
    /\ createBookingSent

\* createBooking invoked again before an earlier call has settled: nothing in
\* createBooking looks at loading or at the calls in flight
createBookingAgain ==
    /\ calls # EmptyBag
    /\ BagCardinality(calls) < MaxInFlight
    /\ createBookingSent

\* on success only the lines that were part of the request are taken out of the cart
createBookingFulfilled_KeepUnbooked(payload, data) ==
    /\ BagIn(payload, calls)
    /\ LET unbooked(item) ==
              \A i \in 1..Len(payload.products) :
                  payload.products[i].productId # item.product._id
           rest == SelectSeq(cart.items, unbooked)
       IN cart' = SET_LOADING([cart EXCEPT !.items = rest,
                                           !.totalItems = reduceQuantity(rest),
                                           !.totalAmount = toFixed2(reduceAmount(rest))],
                              FALSE)
    /\ storage' = saveEffect(cart')
    /\ calls' = calls (-) SetToBag({payload})
    /\ result' = Resolved(data)
    /\ UNCHANGED <<queued, serverVars>>

\* the continuation after an await fulfilled with a response whose data is this:
\* CLEAR_CART, return response.data, finally SET_LOADING
createBookingFulfilled(payload, data) ==
    /\ BagIn(payload, calls)
    /\ cart' = SET_LOADING(CLEAR_CART(cart), FALSE)
    /\ storage' = saveEffect(cart')
    /\ calls' = calls (-) SetToBag({payload})
    /\ result' = Resolved(data)
    /\ UNCHANGED <<queued, serverVars>>

\* the continuation after a rejected await: SET_ERROR, throw, finally SET_LOADING
createBookingFailed(payload, error) ==
    /\ BagIn(payload, calls)
    /\ cart' = SET_LOADING(SET_ERROR(cart, errorMessage(error)), FALSE)
    /\ storage' = saveEffect(cart')
    /\ calls' = calls (-) SetToBag({payload})
    /\ result' = Rejected(error)
    /\ UNCHANGED <<queued, serverVars>>

\* dispatch({ type: CART_ACTIONS.LOAD_CART, payload: cartData })
LoadCartAction(cartData) == [type |-> "LOAD_CART", payload |-> cartData]

\* if (savedCart): null and the empty text are falsy
isTruthy(entry) == entry.kind \notin {"absent", "empty"}

\* the load effect of a mounted CartProvider: the action it dispatches, if any
\* (an entry that is falsy is skipped without being parsed; one that JSON.parse
\* throws on is logged and removed)
loadEffect_SurfaceError(entry) ==
    IF ~isTruthy(entry) THEN NoAction
    ELSE IF entry.kind = "json" THEN LoadCartAction(JSONparse(entry))
    ELSE IF entry.kind = "corrupt"
    THEN [type |-> "SET_ERROR",
          payload |-> JString("Error loading cart from localStorage:")]
    ELSE NoAction

loadEffect(entry) ==
    IF ~isTruthy(entry) THEN NoAction
    ELSE IF entry.kind = "json" THEN LoadCartAction(JSONparse(entry))
    ELSE NoAction

\* console.error('Error loading cart from localStorage:', error)
Logged == [kind |-> "logged", message |-> "Error loading cart from localStorage:"]

\* a page is loaded while the storage holds this entry: the promises of an earlier
\* page are gone; the CartProvider renders initialState, and the effects of that
\* render run in the order they are declared in: the load effect reads the entry and
\* dispatches, then the save effect writes the state of that render, initialState
pageLoaded(entry) ==
    /\ cart' = initialState
    /\ queued' = loadEffect(entry)
    /\ storage' = saveEffect(cart')
    /\ calls' = EmptyBag
    /\ result' = IF isTruthy(entry) /\ entry.kind = "corrupt" THEN Logged ELSE NoResult
    /\ UNCHANGED serverVars

\* React renders the action the load effect dispatched, and the save effect of that
\* render writes the state it gave
loadRendered ==
    /\ queued # NoAction
    /\ cart' = cartReducer(cart, queued)
    /\ storage' = saveEffect(cart')
    /\ queued' = NoAction
    /\ UNCHANGED <<calls, result, serverVars>>

\* the page is loaded again
reload == pageLoaded(storage)

\* an entry written by something other than the store: the JSON text null
ForeignEntry == [kind |-> "json", text |-> JNull]

\* the page is loaded after the entry was cleared, emptied, damaged or replaced
\* while no page was open
reopened(entry) ==
    /\ entry # storage
    /\ pageLoaded(entry)

---------------------------------------------------------------------------
(* Specification of the Cart Store against an arbitrary Booking Service *)

CartInit ==
    /\ cart = initialState
    /\ storage = saveEffect(initialState)
    /\ queued = NoAction
    /\ calls = EmptyBag
    /\ result = NoResult

InitCart == CartInit /\ ServerInit

NextCart ==
    \/ \E product \in CartProducts, quantity \in 1..MaxUnits : addToCart(product, quantity)
    \/ \E productId \in ProductIds : removeFromCart(productId)
    \/ \E productId \in ProductIds, quantity \in (-1)..MaxUnits :
            updateQuantity(productId, quantity)
    \/ clearCart
    \/ clearError
    \/ createBookingEmpty
    \/ createBookingCall
    \/ \E payload \in BagToSet(calls) :
            \E data \in ResponseBodies(payload) : createBookingFulfilled(payload, data)
    \/ \E payload \in BagToSet(calls), error \in CallErrors :
            createBookingFailed(payload, error)
    \/ reload
    \/ \E entry \in {NoEntry, EmptyEntry, CorruptEntry, ForeignEntry} : reopened(entry)
    \/ loadRendered

SpecCart == InitCart /\ [][NextCart]_vars

---------------------------------------------------------------------------
(* Specification of the Cart Store where createBooking is invoked again while *)
(* earlier calls are in flight, for a catalog of two products at one price    *)
(* each and a service that fails in two ways                                  *)

ResubmitProducts == { l \in Listings : l.price % Cent = 0 }

ResubmitErrors ==
    { e \in CallErrors :
        \/ e.response.kind = "none"
        \/ e.response.kind = "http" /\ e.response.status = 400 }

NextResubmit ==
    \/ \E product \in ResubmitProducts, quantity \in 1..MaxUnits :
            addToCart(product, quantity)
    \/ \E productId \in ProductIds : removeFromCart(productId)
    \/ clearCart
    \/ clearError
    \/ createBookingCall
    \/ createBookingAgain
    \/ \E payload \in BagToSet(calls) :
            \E data \in ResponseBodies(payload) : createBookingFulfilled(payload, data)
    \/ \E payload \in BagToSet(calls), error \in ResubmitErrors :
            createBookingFailed(payload, error)

SpecResubmit == InitCart /\ [][NextResubmit]_vars

---------------------------------------------------------------------------
(* Specification of the Booking Service, requests handled one at a time *)

InitServer == ServerInit /\ CartInit

NextServer ==
    \/ receive
    \/ findResolved
    \/ saveSettled
    \/ populateResolved
    \/ databaseFailed
    \/ responseDelivered
    \/ \E p \in ProductIds : \E doc \in ProductDocs(p) \cup {NoDoc} :
            catalogChanged(p, doc)

SpecServer == InitServer /\ [][NextServer]_vars

\* an awaited database operation settles: it resolves or it rejects (the driver gives
\* up after its timeouts), and the handler continues
awaitSettles == databaseFailed \/ findResolved \/ saveSettled \/ populateResolved

SpecServerFair == SpecServer /\ WF_vars(awaitSettles)

---------------------------------------------------------------------------
(* Specification of the Booking Service with several requests in flight.  The  *)
(* handlers run on one thread and give way only at their awaits: req is the   *)
(* request whose handler runs next, waiting holds the others.                 *)

\* requests followed: in flight or booked
MaxRequests == 2

\* bodies of concurrent requests: one line of quantity 1 or 2, with a valid id or not
ConcurrentBodies ==
    { b \in RequestBodies :
        IF b.isArray /\ DOMAIN b = {"isArray", "products"}
        THEN Len(b.products) = 1 /\ b.products[1].quantity >= 1
        ELSE FALSE }

\* the documents a product has in this specification: one price, in or out of stock
ConcurrentDocs(p) == { d \in ProductDocs(p) : d.price % Cent = 0 }

\* a further request arrives while others are in flight
arrive ==
    /\ req = NoReq
    /\ resp = NoResp
    /\ Len(bookings) + BagCardinality(waiting) < MaxRequests
    /\ \E user \in Users, body \in ConcurrentBodies : handle(user, body)

\* the handler of the request waits at its await while the event loop serves others
suspended ==
    /\ req # NoReq
    /\ waiting' = waiting (+) SetToBag({req})
    /\ req' = NoReq
    /\ UNCHANGED <<catalog, bookings, resp, cartVars>>

\* the awaited operation of a waiting request is the next to settle
resumed(r) ==
    /\ req = NoReq
    /\ resp = NoResp
    /\ BagIn(r, waiting)
    /\ req' = r
    /\ waiting' = waiting (-) SetToBag({r})
    /\ UNCHANGED <<catalog, bookings, resp, cartVars>>

NextConcurrent ==
    \/ arrive
    \/ suspended
    \/ \E r \in BagToSet(waiting) : resumed(r)
    \/ findResolved
    \/ saveSettled
    \/ populateResolved
    \/ databaseFailed
    \/ responseDelivered
    \/ \E p \in ProductIds : \E doc \in ConcurrentDocs(p) : catalogChanged(p, doc)

SpecConcurrent == InitServer /\ [][NextConcurrent]_vars

---------------------------------------------------------------------------
(* Specification of one checkout end to end: it starts at the moment            *)
(* createBooking has been invoked on a cart whose lines show the prices the     *)
(* catalog holds, all in stock; the request travels to the Booking Service, is  *)
(* handled while the catalog may change, and the response settles the call.     *)

\* the carts createBooking is invoked on: one or two lines put there by addToCart
CheckoutCarts ==
    { ADD_ITEM(initialState, a, q) : a \in CartProducts, q \in 1..MaxUnits }
    \cup { ADD_ITEM(ADD_ITEM(initialState, x.a, x.qa), x.b, x.qb) :
            x \in { y \in [a : CartProducts, qa : 1..(MaxUnits - 1),
                           b : CartProducts, qb : 1..(MaxUnits - 1)] :
                        y.a._id # y.b._id /\ y.qa + y.qb <= MaxUnits } }

\* every line shows the price the catalog holds for its product, which is in stock
showsCatalog(state, cat) ==
    \A i \in 1..Len(state.items) :
        cat[state.items[i].product._id] = ProductDoc(state.items[i].product, TRUE)

\* the error axios rejects with for a response whose status is not 2xx
axiosError(response) ==
    [message |-> IF response.status = 400 THEN "Request failed with status code 400"
                 ELSE "Request failed with status code 500",
     response |-> HttpResponse(response.status, Envelope(response.message))]

\* the request of the call reaches the service, sent by the authenticated user
requestArrived(payload) ==
    /\ BagIn(payload, calls)
    /\ req = NoReq
    /\ resp = NoResp
    /\ bookings = << >>
    /\ \E user \in Users : handle(user, requestBody(payload))

\* the response reaches the client and the await of createBooking settles: CLEAR_CART
\* on 201, SET_ERROR otherwise, and SET_LOADING false in either case
responseArrived(payload) ==
    /\ BagIn(payload, calls)
    /\ resp # NoResp
    /\ cart' = IF resp.status = 201
               THEN SET_LOADING(CLEAR_CART(cart), FALSE)
               ELSE SET_LOADING(SET_ERROR(cart, errorMessage(axiosError(resp))), FALSE)
    /\ storage' = saveEffect(cart')
    /\ calls' = calls (-) SetToBag({payload})
    /\ result' = IF resp.status = 201
                 THEN Resolved(responseData(resp))
                 ELSE Rejected(axiosError(resp))
    /\ resp' = NoResp
    /\ UNCHANGED <<queued, catalog, bookings, req, waiting>>

\* the documents a product may have while the checkout runs: those of the listings,
\* and those of the listings in whole cents with the price raised by 1.00
CheckoutDocs(p) ==
    ProductDocs(p)
    \cup { [d EXCEPT !.price = @ + (100 * Cent)] :
            d \in { e \in ProductDocs(p) : e.price % Cent = 0 } }

InitEndToEnd ==
    /\ \E state \in CheckoutCarts :
            /\ cart = SET_LOADING(state, TRUE)
            /\ calls = SetToBag({bookingData(state)})
            /\ catalog \in { cat \in Catalogs : showsCatalog(state, cat) }
    /\ storage = saveEffect(cart)
    /\ queued = NoAction
    /\ result = Pending
    /\ bookings = << >>
    /\ req = NoReq
    /\ resp = NoResp
    /\ waiting = EmptyBag

NextEndToEnd ==
    \/ \E payload \in BagToSet(calls) : requestArrived(payload)
    \/ findResolved
    \/ saveSettled
    \/ populateResolved
    \/ databaseFailed
    \/ \E payload \in BagToSet(calls) : responseArrived(payload)
    \/ \E p \in ProductIds : \E doc \in CheckoutDocs(p) \cup {NoDoc} :
            catalogChanged(p, doc)

SpecEndToEnd == InitEndToEnd /\ [][NextEndToEnd]_vars

---------------------------------------------------------------------------
(* Specification of the Booking model used directly, as its tests and scripts do: *)
(* new Booking(fields).save()                                                    *)

\* lines given to new Booking: the two lines of the model tests, a line at a price
\* that is no whole cent, a line with quantity 0 and a line with a negative price
ModelLines ==
    { [productId |-> "p1", quantity |-> 2, price |-> 10000],
      [productId |-> "p2", quantity |-> 1, price |-> 15500],
      [productId |-> "p1", quantity |-> 1, price |-> 1004],
      [productId |-> "p1", quantity |-> 0, price |-> 10000],
      [productId |-> "p2", quantity |-> 1, price |-> -15500] }

\* totalAmount given to new Booking: 0 and -0.01, or none
ModelTotals == {0, -10}

\* status given to new Booking, or none
ModelStatuses == {"confirmed", "shipped"}

\* the fields of the validation tests of the model: no userId, a userId and a
\* productId that are no ObjectIds, a line without its productId, quantity or
\* price, the quantity 1.5, and no products at all
TestFields ==
    { [products |-> << [productId |-> "p1", quantity |-> 1, price |-> 10000] >>],
      [userId |-> "invalid_id",
       products |-> << [productId |-> "p1", quantity |-> 1, price |-> 10000] >>],
      [userId |-> "u1", products |-> << [quantity |-> 1, price |-> 10000] >>],
      [userId |-> "u1",
       products |-> << [productId |-> "invalid_id", quantity |-> 1, price |-> 10000] >>],
      [userId |-> "u1", products |-> << [productId |-> "p1", price |-> 10000] >>],
      [userId |-> "u1",
       products |-> << [productId |-> "p1", quantity |-> 1, fraction |-> 500,
                        price |-> 10000] >>],
      [userId |-> "u1", products |-> << [productId |-> "p1", quantity |-> 1] >>],
      [userId |-> "u1"] }

BookingFields ==
    TestFields
    \cup UNION { { [userId |-> u, products |-> ps],
              [userId |-> u, products |-> ps, status |-> st],
              [userId |-> u, products |-> ps, totalAmount |-> t],
              [userId |-> u, products |-> ps, totalAmount |-> t, status |-> st] } :
            u \in Users, ps \in SeqsUpTo(ModelLines, MaxLines),
            t \in ModelTotals, st \in ModelStatuses }

\* what save() delivered: the saved document, or the validation errors
\* (given: the totalAmount the document was constructed with, if any)
Saved(fields, doc) ==
    [kind |-> "saved", doc |-> doc,
     given |-> IF "totalAmount" \in DOMAIN fields THEN {fields.totalAmount} ELSE {}]
SaveRejected(fields, errors) == [kind |-> "rejected", errors |-> errors]

\* new Booking(fields).save()
create(fields) ==
    \E saved \in {BookingSave(NewBooking(fields))} :
       /\ IF saved.ok
          THEN /\ bookings' = Append(bookings, saved.doc)
               /\ resp' = Saved(fields, saved.doc)
          ELSE /\ bookings' = bookings
               /\ resp' = SaveRejected(fields, saved.errors)
       /\ UNCHANGED <<catalog, req, cartVars, waiting>>

\* Booking.deleteMany({})
deleteMany ==
    /\ bookings # << >>
    /\ bookings' = << >>
    /\ UNCHANGED <<catalog, req, resp, cartVars, waiting>>

InitBooking == ServerInit /\ CartInit

NextBooking ==
    \/ /\ Len(bookings) < MaxBookings
       /\ \E fields \in BookingFields : create(fields)
    \/ deleteMany

SpecBooking == InitBooking /\ [][NextBooking]_vars

---------------------------------------------------------------------------
(* Properties of the Cart Store, checked under SpecCart *)

\* sum of the quantities of the lines
RECURSIVE QuantityOf(_)
QuantityOf(lines) ==
    IF lines = << >> THEN 0 ELSE Head(lines).quantity + QuantityOf(Tail(lines))

\* sum of price * quantity of the lines, unrounded
RECURSIVE AmountOf(_)
AmountOf(lines) ==
    IF lines = << >> THEN 0
    ELSE (Head(lines).price * Head(lines).quantity) + AmountOf(Tail(lines))

\* the double is the amount, to within the rounding of double arithmetic (less than
\* 2^-32 of a mill)
IsAmount(x, m) == x.mills = m /\ 0 - (2^30) < x.err /\ x.err < 2^30

\* the sum of price * quantity of the lines as the Numbers give it, line after line
RECURSIVE SumFrom(_, _)
SumFrom(sum, lines) ==
    IF lines = << >> THEN sum
    ELSE SumFrom(plus(sum, times(Head(lines).price, Head(lines).quantity)), Tail(lines))

\* the Number lies below the amount of m mills
IsBelow(x, m) == x.mills < m \/ (x.mills = m /\ x.err < 0)

\* a Number rounded to 2 decimals: the whole cent c with c - 0.005 <= x < c + 0.005
RoundedToCents(x) ==
    CHOOSE c \in { k * Cent : k \in (x.mills \div Cent)..((x.mills \div Cent) + 1) } :
        ~IsBelow(x, c - (Cent \div 2)) /\ IsBelow(x, c + (Cent \div 2))

\* C1: in every reachable state of the Cart Store totalItems is the sum of the
\* quantities of the lines and totalAmount is the sum of price * quantity of the
\* lines rounded to 2 decimals (the sum is the one the Numbers give, which is the
\* sum of the decimal amounts to within the rounding of double arithmetic).
C1_TotalsAreDerived ==
    /\ cart.totalItems = QuantityOf(cart.items)
    /\ IsAmount(SumFrom(Number(0), cart.items), AmountOf(cart.items))
    /\ cart.totalAmount = RoundedToCents(SumFrom(Number(0), cart.items))

\* two lines of different products whose decimal amounts sum to a half cent, 16.505,
\* where the sum of the Numbers lies below it: the total is 16.50
C1_Witness ==
    /\ Len(cart.items) = 2
    /\ AmountOf(cart.items) % Cent = Cent \div 2
    /\ cart.totalAmount < AmountOf(cart.items)

NoDuplicateLines(items) ==
    \A i, j \in 1..Len(items) :
        items[i].product._id = items[j].product._id => i = j

\* the step is addToCart(product, quantity) for a product that already has a line
MergingAdd(product, quantity) ==
    /\ findIndex(cart.items, product._id) > 0
    /\ addToCart(product, quantity)

\* C2: the cart never holds two lines of one product id, and addToCart of a product
\* that already has a line appends nothing: that line's quantity becomes
\* existing.quantity + quantity and the lines are otherwise as they were.
C2_OneLinePerProduct ==
    /\ [](NoDuplicateLines(cart.items))
    /\ [][cart'.items # cart.items =>
          \A product \in CartProducts, quantity \in 1..MaxUnits :
            MergingAdd(product, quantity) =>
                /\ Len(cart'.items) = Len(cart.items)
                /\ \A i \in 1..Len(cart.items) :
                    /\ cart'.items[i].product._id = cart.items[i].product._id
                    /\ cart'.items[i].quantity =
                         IF cart.items[i].product._id = product._id
                         THEN cart.items[i].quantity + quantity
                         ELSE cart.items[i].quantity]_vars

\* a cart of two products in which one line has been merged up to quantity 2 is
\* impossible within MaxUnits = 2, so the witness is the single merged line
C2_Witness ==
    /\ Len(cart.items) = 1
    /\ cart.items[1].quantity >= 2
    /\ cart.totalItems = cart.items[1].quantity

\* the step is an invocation of createBooking (either branch of its guard)
CreateBookingInvoked ==
    \/ result' = Rejected(ErrCartEmpty) /\ calls' = calls
    \/ result' = Pending /\ BagCardinality(calls') = BagCardinality(calls) + 1

\* C8: createBooking invoked while items is empty is rejected with 'Cart is empty',
\* sends no request and dispatches nothing: cart state and storage are unchanged.
C8_EmptyCartFailsLocally ==
    [][(Len(cart.items) = 0 /\ CreateBookingInvoked) =>
            /\ result' = Rejected(ErrCartEmpty)
            /\ calls' = calls
            /\ cart' = cart
            /\ storage' = storage]_vars

\* createBooking was rejected locally on an empty cart that still shows the error of
\* an earlier failed checkout
C8_Witness ==
    /\ result = Rejected(ErrCartEmpty)
    /\ cart.items = << >>
    /\ cart.error # Null
    /\ calls = EmptyBag

\* the step is the continuation of createBooking after the call that carried this
\* payload was fulfilled
CheckoutSucceededStep(payload) ==
    /\ result'.kind = "resolved"
    /\ calls' = calls (-) SetToBag({payload})

\* the body is one a call with this payload may be fulfilled with: the envelope of a
\* created booking that has the lines of the payload, product by product and
\* quantity by quantity, or a body that is none of the service's
AnswersPayload(data, payload) ==
    \/ data = OtherBody
    \/ /\ data.success = TRUE
       /\ data.data.message = MsgCreated
       /\ LET shown == data.data.booking.products
          IN /\ Len(shown) = Len(payload.products)
             /\ \A i \in 1..Len(shown) :
                    /\ shown[i].quantity = payload.products[i].quantity
                    /\ \/ shown[i].productId = NoProduct
                       \/ shown[i].productId._id = payload.products[i].productId

\* C9: when createBooking has resolved, the cart is cleared (no items, both totals 0)
\* and loading is false; and what the caller holds is the body of a response to the
\* payload of that call.
C9_SuccessClearsCart ==
    /\ [](result.kind = "resolved" =>
            /\ cart.items = << >>
            /\ cart.totalItems = 0
            /\ cart.totalAmount = 0
            /\ cart.loading = FALSE)
    /\ [][\A payload \in BagToSet(calls) :
            CheckoutSucceededStep(payload) =>
                /\ AnswersPayload(result'.data, payload)
                /\ cart'.items = << >>]_vars

\* the caller holds the 201 body of the service for a cart of two lines, and the cart
\* is empty
C9_Witness ==
    /\ result.kind = "resolved"
    /\ result.data # OtherBody
    /\ Len(result.data.data.booking.products) = 2
    /\ cart.items = << >>

\* the step is the continuation of createBooking after a rejected request
CheckoutFailedStep ==
    /\ result'.kind = "rejected"
    /\ BagCardinality(calls') = BagCardinality(calls) - 1

\* the message of the error envelope of a failed request, if it carries one
EnvelopeMessage(error) ==
    IF error.response.kind = "http" /\ error.response.data.kind = "envelope"
    THEN JString(error.response.data.message)
    ELSE JString("Failed to create booking")

\* C10: the failure path of createBooking leaves items, totalItems and totalAmount as
\* they were, sets error to the message of the error envelope or to
\* 'Failed to create booking' when there is none, sets loading to false and rejects
\* with the error of the request.
C10_FailureKeepsItems ==
    [][CheckoutFailedStep =>
            /\ cart'.items = cart.items
            /\ cart'.totalItems = cart.totalItems
            /\ cart'.totalAmount = cart.totalAmount
            /\ cart'.loading = FALSE
            /\ cart'.error = EnvelopeMessage(result'.error)
            /\ result'.error \in CallErrors]_vars

\* a request failed without any response: the fallback message is shown and the
\* items are still in the cart
C10_Witness ==
    /\ result.kind = "rejected"
    /\ result.error.response.kind = "none"
    /\ result.error # ErrCartEmpty
    /\ cart.error = JString("Failed to create booking")
    /\ cart.items # << >>
    /\ cart.loading = FALSE

---------------------------------------------------------------------------
(* Properties of the Booking Service, checked under SpecServer *)

\* no document for the id in the catalog, or one that is out of stock
Unavailable(cat, p) ==
    IF p \in DOMAIN cat /\ cat[p].kind = "doc" THEN cat[p].inStock = FALSE ELSE TRUE

\* the request waiting for its lookup lists an id that is unavailable now
SomeRequestedUnavailable ==
    \E i \in 1..Len(req.body.products) :
        Unavailable(catalog, castObjectId(req.body.products[i].productId))

\* C3: when the catalog lookup of a structurally valid request completes while one of
\* the requested ids is absent from the catalog or out of stock, the request is
\* answered 400 PRODUCTS_NOT_AVAILABLE, it is over, and the bookings are unchanged.
C3_UnavailableRejectsWhole ==
    [][(findResolved /\ SomeRequestedUnavailable) =>
            /\ resp' = ProductsNotAvailable
            /\ resp'.status = 400
            /\ req' = NoReq
            /\ bookings' = bookings]_vars

\* a request was answered PRODUCTS_NOT_AVAILABLE while p1 is in stock and p2 is not,
\* and nothing is booked
C3_Witness ==
    /\ resp = ProductsNotAvailable
    /\ bookings = << >>
    /\ ~Unavailable(catalog, "p1")
    /\ catalog["p2"].kind = "doc"
    /\ Unavailable(catalog, "p2")

\* the lines a request is booked with: ids and quantities of the request, prices of
\* the catalog; nothing else of the request is used
ExpectedLines(products, cat) ==
    [i \in 1..Len(products) |->
        [productId |-> products[i].productId,
         quantity |-> products[i].quantity,
         price |-> cat[products[i].productId].price]]

\* C4: the booking constructed when the lookup completes has, line by line, the id and
\* quantity of the request and the price the catalog holds for that id at the lookup,
\* and no totalAmount; the booking persisted by its save has exactly these lines, the
\* requesting user, status pending and their sum as totalAmount. Price and totalAmount
\* of the request appear nowhere.
C4_ServerPricesWin ==
    /\ [][(findResolved /\ req'.kind = "request") =>
            /\ req'.booking.products = ExpectedLines(req.body.products, catalog)
            /\ "totalAmount" \notin DOMAIN req'.booking]_vars
    /\ [][(saveSettled /\ bookings' # bookings) =>
            LET saved == bookings'[Len(bookings')]
            IN /\ bookings' = Append(bookings, saved)
               /\ DOMAIN saved = {"userId", "products", "status", "totalAmount"}
               /\ saved.userId = req.user
               /\ saved.products = req.booking.products
               /\ saved.status = "pending"
               /\ IsAmount(saved.totalAmount, AmountOf(req.booking.products))]_vars

\* a request carrying client prices and a client total has been persisted with other
\* prices and another total
C4_Witness ==
    /\ req.kind = "request"
    /\ req.pc = "populate"
    /\ "totalAmount" \in DOMAIN req.body
    /\ bookings # << >>
    /\ bookings[Len(bookings)].totalAmount.mills # req.body.totalAmount
    /\ \A i \in 1..Len(req.body.products) :
            bookings[Len(bookings)].products[i].price # req.body.products[i].price

\* the texts of 24 hexadecimal digits among the ids of requests: the ObjectIds as
\* toString() writes them and p1 and p2 with their letters in upper case
WellFormedIds == {"p1", "p2", "P1", "P2", "u1", "u2", "o1"}

\* the body is no list, an empty list, or has an entry with an id that is no text of
\* an ObjectId, whether or not a product has it, or with a quantity that is no whole
\* number or is below 1
Malformed(body) ==
    IF body.isArray
    THEN \/ body.products = << >>
         \/ \E i \in 1..Len(body.products) :
                \/ body.products[i].productId \notin WellFormedIds
                \/ "fraction" \in DOMAIN body.products[i]
                \/ body.products[i].quantity < 1
    ELSE TRUE

\* the step is the arrival of a request
RequestArrives ==
    /\ req = NoReq
    /\ resp = NoResp
    /\ (req' # req \/ resp' # resp)

\* C6: an arriving request either is answered 400 VALIDATION_ERROR at once, the
\* handler being over, or has a body that is not malformed and waits for its catalog
\* lookup; either way the bookings are unchanged.  No malformed request is ever at
\* the lookup or a later stage.
C6_MalformedRejectedFirst ==
    /\ [](req.kind = "request" => ~Malformed(req.body))
    /\ [][RequestArrives =>
            /\ bookings' = bookings
            /\ IF req' = NoReq
               THEN resp' = ValidationError /\ resp'.status = 400
               ELSE /\ req'.pc = "find"
                    /\ ~Malformed(req'.body)
                    /\ resp' = NoResp]_vars

\* a request was answered VALIDATION_ERROR although both products are in stock
C6_Witness ==
    /\ resp = ValidationError
    /\ req = NoReq
    /\ bookings = << >>
    /\ ~Unavailable(catalog, "p1")
    /\ ~Unavailable(catalog, "p2")

\* the distinct ids a request lists
DistinctIds(products) ==
    { castObjectId(products[i].productId) : i \in 1..Len(products) }

\* C7: when the lookup of a structurally valid request completes, the request is
\* answered PRODUCTS_NOT_AVAILABLE exactly when fewer in-stock products match than it
\* lists distinct ids; otherwise its booking goes on to be saved.
C7_RejectedExactlyWhenUnmatched ==
    [][findResolved =>
            LET ids == DistinctIds(req.body.products)
                matched == { p \in ids : ~Unavailable(catalog, p) }
            IN /\ (resp' = ProductsNotAvailable)
                    <=> (Cardinality(matched) < Cardinality(ids))
               /\ (Cardinality(matched) = Cardinality(ids))
                    => (req'.kind = "request" /\ req'.pc = "save")]_vars

---------------------------------------------------------------------------
(* Properties of the Booking model, checked under SpecBooking *)

\* the fields are valid apart from the totalAmount they may carry
ValidButForTotal(fields) ==
    /\ {"userId", "products"} \subseteq DOMAIN fields
    /\ fields.userId \in ObjectIds
    /\ fields.products # << >>
    /\ \A i \in 1..Len(fields.products) :
            /\ DOMAIN fields.products[i] = {"productId", "quantity", "price"}
            /\ fields.products[i].productId \in ObjectIds
            /\ fields.products[i].quantity >= 1
            /\ fields.products[i].price >= 0
    /\ ("status" \in DOMAIN fields => fields.status \in BookingStatuses)

\* C5 as stated: a save of a document that is valid in its other fields persists it
\* with totalAmount = sum of price * quantity, whatever totalAmount it was given.
C5_EverySaveOverwrites ==
    [][\A fields \in BookingFields :
            (ValidButForTotal(fields) /\ create(fields)) =>
                /\ Len(bookings') = Len(bookings) + 1
                /\ IsAmount(bookings'[Len(bookings')].totalAmount,
                            AmountOf(fields.products))]_vars

\* C5: every persisted Booking has at least one line and totalAmount = sum of
\* price * quantity over its lines; a save that succeeded delivered a document with
\* that total whether it was constructed without totalAmount or with one, and the
\* one it was constructed with was not negative.
C5_SavedTotalIsDerived ==
    /\ \A i \in 1..Len(bookings) :
            /\ bookings[i].products # << >>
            /\ IsAmount(bookings[i].totalAmount, AmountOf(bookings[i].products))
    /\ resp.kind = "saved" =>
            /\ IsAmount(resp.doc.totalAmount, AmountOf(resp.doc.products))
            /\ \A t \in resp.given : t >= 0

\* a document constructed with totalAmount 0 was saved with the total of its lines
C5_Witness ==
    /\ resp.kind = "saved"
    /\ resp.given = {0}
    /\ resp.doc.totalAmount.mills > 0
    /\ bookings # << >>
    /\ bookings[Len(bookings)] = resp.doc

---------------------------------------------------------------------------
(* Further properties of the Cart Store, checked under SpecCart *)

\* the lines without those of the product id
WithoutProduct(items, productId) ==
    LET other(item) == item.product._id # productId
    IN SelectSeq(items, other)

\* the lines with the quantity of the product id's line replaced by q
WithQuantity(items, productId, q) ==
    [i \in 1..Len(items) |->
        IF items[i].product._id = productId
        THEN [product |-> items[i].product, quantity |-> q, price |-> items[i].price]
        ELSE items[i]]

\* C11: updateQuantity(productId, q) on a product that has a line sets that line's
\* quantity to q when q >= 1 and drops the line when q <= 0; the other lines are as
\* they were, in their order, and both totals are those of the new lines.
C11_UpdateSetsOrRemoves ==
    [][cart' # cart =>
        \A productId \in ProductIds, q \in (-1)..MaxUnits :
            (findIndex(cart.items, productId) > 0 /\ updateQuantity(productId, q)) =>
                /\ cart'.items = IF q >= 1 THEN WithQuantity(cart.items, productId, q)
                                 ELSE WithoutProduct(cart.items, productId)
                /\ cart'.totalItems = QuantityOf(cart'.items)
                /\ cart'.totalAmount =
                        RoundedToCents(SumFrom(Number(0), cart'.items))]_vars

\* after a failed checkout (the error is still shown, so no addToCart came after it)
\* the cart holds one line at 1.005 with quantity 2 and totals 2 and 2.01
C11_Witness ==
    /\ cart.error # Null
    /\ Len(cart.items) = 1
    /\ cart.items[1].price = 1005
    /\ cart.items[1].quantity = 2
    /\ cart.totalItems = 2
    /\ cart.totalAmount = 2010

---------------------------------------------------------------------------
(* Further properties of the Booking Service, checked under SpecServer *)

\* C12: a booking is persisted only for the request being handled, with userId equal
\* to the authenticated identity of that request and status pending, whatever the
\* body carries; every persisted booking is pending and owned by an authenticated
\* identity.
C12_PendingAndOwned ==
    /\ [](\A i \in 1..Len(bookings) :
            bookings[i].status = "pending" /\ bookings[i].userId \in Users)
    /\ [][bookings' # bookings =>
            /\ req.kind = "request"
            /\ Len(bookings') = Len(bookings) + 1
            /\ bookings'[Len(bookings')].userId = req.user
            /\ bookings'[Len(bookings')].status = "pending"]_vars

\* the booking of a request whose body names another owner and the status confirmed
\* has been persisted
C12_Witness ==
    /\ req.kind = "request"
    /\ req.pc = "populate"
    /\ "userId" \in DOMAIN req.body
    /\ req.body.userId # req.user
    /\ req.body.status # "pending"
    /\ bookings # << >>
    /\ bookings[Len(bookings)] = req.booking

\* the fields of a CartState
CartStateFields == {"items", "totalItems", "totalAmount", "loading", "error"}

\* C13: in every state between two operations the storage entry 'cart' is the JSON
\* text of an object with exactly the five fields of the CartState, and the value it
\* denotes is the current in-memory state.
C13_WriteThrough ==
    /\ storage.kind = "json"
    /\ storage.text.t = "object"
    /\ DOMAIN storage.text.v = CartStateFields
    /\ JSONparse(storage).value = cart

\* a checkout is in flight on a cart of two lines and the stored text says loading
C13_Witness ==
    /\ calls # EmptyBag
    /\ Len(cart.items) = 2
    /\ cart.loading = TRUE
    /\ storage.kind = "json"
    /\ storage.text.v["loading"] = JBool(TRUE)
    /\ Len(storage.text.v["items"].v) = 2

\* C14: a page load that finds the entry the store itself wrote dispatches
\* LOAD_CART with the state that was serialized, and the render of that action yields
\* that state (same lines in the same order, same totals, same loading and error)
\* and leaves the entry holding it again.
C14_ReloadRoundTrip ==
    /\ [][reload =>
            /\ queued'.type = "LOAD_CART"
            /\ queued'.payload.type = "object"
            /\ queued'.payload.value = cart]_vars
    /\ [][(loadRendered /\ queued.payload.type = "object") =>
            /\ cart' = queued.payload.value
            /\ JSONparse(storage').value = queued.payload.value
            /\ storage' = JSONstringify(queued.payload.value)]_vars

\* the page was loaded again while a checkout of two lines was in flight: the call is
\* gone and the cart is as it was stored
C14_Witness ==
    /\ queued = NoAction
    /\ calls = EmptyBag
    /\ cart.loading = TRUE
    /\ Len(cart.items) = 2
    /\ cart.totalItems = 2
    /\ storage = JSONstringify(cart)

\* the empty cart
EmptyCart ==
    [items |-> << >>, totalItems |-> 0, totalAmount |-> 0,
     loading |-> FALSE, error |-> Null]

\* C15: a page load that finds an entry JSON.parse throws on starts from the empty
\* cart with error null, replaces the entry, and delivers no error to a caller: the
\* failure is only logged.
C15_CorruptEntryDiscarded ==
    [][\A entry \in {storage, NoEntry, CorruptEntry} :
            (entry.kind = "corrupt" /\ pageLoaded(entry)) =>
                /\ cart' = EmptyCart
                /\ queued' = NoAction
                /\ storage' # entry
                /\ JSONparse(storage').value = EmptyCart
                /\ result'.kind # "rejected"]_vars

\* the load effect has logged the decode failure and the cart is empty without error
C15_Witness ==
    /\ result = Logged
    /\ queued = NoAction
    /\ cart.items = << >>
    /\ cart.error = Null
    /\ cart.loading = FALSE
    /\ storage.kind = "json"

---------------------------------------------------------------------------
(* Further properties of the Booking model, checked under SpecBooking *)

\* at least one line, every line with quantity >= 1 and price >= 0
WellFormedLines(products) ==
    /\ Len(products) >= 1
    /\ \A i \in 1..Len(products) :
            /\ DOMAIN products[i] = {"productId", "quantity", "price"}
            /\ products[i].quantity \in Nat
            /\ products[i].quantity >= 1
            /\ products[i].price >= 0

WellFormedBooking(doc) ==
    /\ WellFormedLines(doc.products)
    /\ doc.status \in {"pending", "confirmed", "completed", "cancelled"}

\* the fields would make a Booking that is not well formed
IllFormedFields(fields) ==
    \/ "products" \notin DOMAIN fields
    \/ ~WellFormedLines(fields.products)
    \/ ("status" \in DOMAIN fields
            /\ fields.status \notin {"pending", "confirmed", "completed", "cancelled"})

\* C16: every persisted Booking is well formed; the collection grows only by a save
\* that delivered the well-formed document it appended; a save that was rejected
\* names a validation error and left the collection as it was; and no fields that
\* would make an ill-formed Booking are accepted by save.
C16_PersistedWellFormed ==
    /\ [](\A i \in 1..Len(bookings) : WellFormedBooking(bookings[i]))
    /\ [](resp.kind = "rejected" => resp.errors # {})
    /\ [](bookings = << >> =>
            \A fields \in BookingFields :
                IllFormedFields(fields) => ~BookingSave(NewBooking(fields)).ok)
    /\ [][(bookings' # bookings /\ bookings' # << >>) =>
            /\ resp'.kind = "saved"
            /\ WellFormedBooking(resp'.doc)
            /\ bookings' = Append(bookings, resp'.doc)]_vars
    /\ [][(resp' # resp /\ resp'.kind = "rejected") => bookings' = bookings]_vars

\* a save of a document with a line of quantity 0 and a status outside the enumeration
\* was rejected and nothing is persisted
C16_Witness ==
    /\ resp.kind = "rejected"
    /\ "Quantity must be at least 1" \in resp.errors
    /\ "Status must be one of: pending, confirmed, completed, cancelled" \in resp.errors
    /\ bookings = << >>

---------------------------------------------------------------------------
(* Properties of the Booking Service that need its awaits to settle, checked *)
(* under SpecServerFair                                                      *)

\* status and code of a response
Outcome(r) == <<r.status, IF r.success THEN "CREATED" ELSE r.code>>

\* position of a stage of the handler
StageNumber(pc) == CASE pc = "find" -> 1 [] pc = "save" -> 2 [] pc = "populate" -> 3

\* C17: every response is one of 201 success, 400 VALIDATION_ERROR,
\* 400 PRODUCTS_NOT_AVAILABLE, 500 BOOKING_CREATE_ERROR; a response is sent only in the
\* step that ends the handling of a request, and that step sends one; a rejected
\* database operation ends the request with the 500 BOOKING_CREATE_ERROR envelope
\* carrying 'Failed to create booking'; a request never goes back to an earlier
\* stage (nothing is retried); and every request being handled is eventually over.
C17_OneStructuredResponse ==
    /\ [](resp # NoResp =>
            /\ resp.kind = "response"
            /\ Outcome(resp) \in { <<201, "CREATED">>, <<400, "VALIDATION_ERROR">>,
                                   <<400, "PRODUCTS_NOT_AVAILABLE">>,
                                   <<500, "BOOKING_CREATE_ERROR">> }
            /\ resp.message # ""
            /\ req = NoReq)
    /\ [][(resp' # resp /\ resp' # NoResp) => (resp = NoResp /\ req' = NoReq)]_vars
    /\ [][(req # NoReq /\ req' = NoReq) => resp' # NoResp]_vars
    /\ [][databaseFailed =>
            /\ resp' = [kind |-> "response", status |-> 500, success |-> FALSE,
                        message |-> "Failed to create booking",
                        code |-> "BOOKING_CREATE_ERROR"]
            /\ req' = NoReq]_vars
    /\ [][(req # NoReq /\ req' # NoReq /\ req' # req) =>
            /\ StageNumber(req'.pc) = StageNumber(req.pc) + 1
            /\ req'.body = req.body
            /\ req'.user = req.user]_vars
    /\ (req # NoReq) ~> (req = NoReq)

\* a request ended with 500 BOOKING_CREATE_ERROR while both products are in stock, and
\* nothing was booked
C17_Witness ==
    /\ resp # NoResp
    /\ resp.status = 500
    /\ resp.code = "BOOKING_CREATE_ERROR"
    /\ req = NoReq
    /\ bookings = << >>
    /\ ~Unavailable(catalog, "p1")
    /\ ~Unavailable(catalog, "p2")

---------------------------------------------------------------------------
(* Frame properties of the Cart Store, checked under SpecCart *)

\* C18: addToCart of a product that already has a line leaves the price and the
\* product snapshot of that line as they were, also when the product passed in has
\* another price; totalAmount afterwards is that of the old lines with the one
\* quantity increased.
C18_MergeKeepsSnapshot ==
    [][cart'.items # cart.items =>
        \A product \in CartProducts, quantity \in 1..MaxUnits :
            MergingAdd(product, quantity) =>
                LET i == findIndex(cart.items, product._id)
                IN /\ cart'.items[i].price = cart.items[i].price
                   /\ cart'.items[i].product = cart.items[i].product
                   /\ cart'.totalAmount =
                        RoundedToCents(SumFrom(Number(0),
                            WithQuantity(cart.items, product._id,
                                         cart.items[i].quantity + quantity)))]_vars

\* the one line was created at 1.005 and holds two units at that price, no error shown
C18_Witness ==
    /\ cart.error = Null
    /\ Len(cart.items) = 1
    /\ cart.items[1].product._id = "p1"
    /\ cart.items[1].product.price = 1005
    /\ cart.items[1].price = 1005
    /\ cart.items[1].quantity = 2
    /\ cart.totalAmount = 2010

\* C19: every line of the cart has an integer quantity >= 1, in every reachable state.
C19_QuantitiesPositive ==
    \A i \in 1..Len(cart.items) :
        cart.items[i].quantity \in Nat /\ cart.items[i].quantity >= 1

\* the last line was taken out of a cart that still shows the error of a failed
\* checkout
C19_Witness ==
    /\ cart.items = << >>
    /\ cart.totalItems = 0
    /\ cart.error # Null
    /\ result = NoResult
    /\ calls = EmptyBag

\* C20: removeFromCart(productId) and updateQuantity(productId, q) for a product id
\* that has no line leave the cart state as it is: same lines in the same order, same
\* totals, and no line for that id.
C20_AbsentIdIsNoOp ==
    [][\A productId \in ProductIds :
            (/\ findIndex(cart.items, productId) = 0
             /\ \/ removeFromCart(productId)
                \/ \E q \in (-1)..MaxUnits : updateQuantity(productId, q)) =>
                /\ cart'.items = cart.items
                /\ cart'.totalItems = cart.totalItems
                /\ cart'.totalAmount = cart.totalAmount
                /\ findIndex(cart'.items, productId) = 0
                /\ result'.kind # "rejected"]_vars

\* a cart of one line of p2 with no line of p1, while the result of a checkout that
\* was pending has been replaced by that of a later operation
C20_Witness ==
    /\ Len(cart.items) = 1
    /\ findIndex(cart.items, "p1") = 0
    /\ cart.loading = TRUE
    /\ calls # EmptyBag
    /\ result = NoResult

\* C21: clearCart() empties items and sets both totals to 0 and leaves error and
\* loading as they were; clearError() sets error to null and leaves items, both
\* totals and loading as they were.
C21_ClearFrames ==
    /\ [][clearCart =>
            /\ cart'.items = << >>
            /\ cart'.totalItems = 0
            /\ cart'.totalAmount = 0
            /\ cart'.error = cart.error
            /\ cart'.loading = cart.loading]_vars
    /\ [][clearError =>
            /\ cart'.error = Null
            /\ cart'.items = cart.items
            /\ cart'.totalItems = cart.totalItems
            /\ cart'.totalAmount = cart.totalAmount
            /\ cart'.loading = cart.loading]_vars

\* the cart was emptied during a checkout that retries a failed one: the error of the
\* failed checkout is still shown and loading is still true
C21_Witness ==
    /\ cart.items = << >>
    /\ cart.totalItems = 0
    /\ cart.totalAmount = 0
    /\ cart.error # Null
    /\ cart.loading = TRUE
    /\ calls # EmptyBag
    /\ result = NoResult

\* C22: in every reachable state of the Cart Store, also one reached by a page load
\* from the stored entry, loading = true only while a createBooking call started by
\* the page that is open has not settled.
C22_LoadingMeansInFlight ==
    cart.loading = TRUE => calls # EmptyBag

---------------------------------------------------------------------------
(* Properties of cart changes during a checkout, checked under SpecCart *)

\* the lines of a request: product id, quantity and price of every line, in order
RequestLines(items) ==
    [i \in 1..Len(items) |->
        [productId |-> items[i].product._id,
         quantity |-> items[i].quantity,
         price |-> items[i].price]]

\* the step changes the lines while a checkout is in flight
ChangedInFlight ==
    /\ cart.loading = TRUE
    /\ calls # EmptyBag
    /\ cart'.items # cart.items

\* C24: while a checkout is in flight (loading = true) addToCart, removeFromCart and
\* updateQuantity change the lines as they do otherwise and leave the requests in
\* flight as they are; a request carries the lines and the total the cart had when
\* createBooking was invoked; when a call succeeds the cart is emptied whatever lines
\* it holds by then, and when it fails the lines are those the cart holds by then.
C24_MutationsDuringCheckout ==
    /\ [][ChangedInFlight =>
            /\ \A product \in CartProducts, quantity \in 1..MaxUnits :
                    addToCart(product, quantity) =>
                        /\ findIndex(cart'.items, product._id) > 0
                        /\ QuantityOf(cart'.items) = QuantityOf(cart.items) + quantity
                        /\ calls' = calls
            /\ \A productId \in ProductIds :
                    removeFromCart(productId) =>
                        /\ cart'.items = WithoutProduct(cart.items, productId)
                        /\ calls' = calls
            /\ \A productId \in ProductIds, q \in (-1)..MaxUnits :
                    updateQuantity(productId, q) =>
                        /\ cart'.items = IF q >= 1
                                         THEN WithQuantity(cart.items, productId, q)
                                         ELSE WithoutProduct(cart.items, productId)
                        /\ calls' = calls]_vars
    /\ [][createBookingCall =>
            calls' = calls (+) SetToBag({[products |-> RequestLines(cart.items),
                                          totalAmount |-> cart.totalAmount]})]_vars
    /\ [][\A payload \in BagToSet(calls) :
            /\ CheckoutSucceededStep(payload) =>
                    /\ cart'.items = << >>
                    /\ cart'.totalItems = 0
                    /\ cart'.totalAmount = 0
            /\ (\E error \in CallErrors : createBookingFailed(payload, error)) =>
                    /\ cart'.items = cart.items
                    /\ cart'.totalItems = cart.totalItems]_vars

\* a checkout of one product is in flight and the cart has since got a line of a
\* product the request does not list
C24_Witness ==
    /\ cart.loading = TRUE
    /\ \E payload \in BagToSet(calls) :
            \E i \in 1..Len(cart.items) :
                \A j \in 1..Len(payload.products) :
                    payload.products[j].productId # cart.items[i].product._id

\* C30: addToCart always resets error to null, removeFromCart and updateQuantity
\* leave error as it was, and none of the three changes loading (each implication is
\* written with its conclusion first).
C30_ErrorAndLoadingFrames ==
    [][/\ \A product \in CartProducts, quantity \in 1..MaxUnits :
            \/ /\ cart'.error = Null
               /\ cart'.loading = cart.loading
            \/ ~addToCart(product, quantity)
       /\ \A productId \in ProductIds :
            \/ /\ cart'.error = cart.error
               /\ cart'.loading = cart.loading
            \/ ~removeFromCart(productId)
       /\ \A productId \in ProductIds, quantity \in (-1)..MaxUnits :
            \/ /\ cart'.error = cart.error
               /\ cart'.loading = cart.loading
            \/ ~updateQuantity(productId, quantity)]_vars

\* a line was removed or changed while a checkout is in flight and the message of
\* an earlier failure is shown: both the message and loading are still in place
C30_Witness ==
    /\ result = NoResult
    /\ cart.error = JString(MsgNotAvailable)
    /\ cart.loading = TRUE
    /\ calls # EmptyBag
    /\ \E payload \in BagToSet(calls) : payload # bookingData(cart)

---------------------------------------------------------------------------
(* Properties of repeated checkout, checked under SpecResubmit *)

\* C23: in every reachable state in which a call started by createBooking has not
\* settled, loading = true, also when createBooking was invoked again before the
\* first call settled.
C23_InFlightMeansLoading ==
    calls # EmptyBag => cart.loading = TRUE

\* the step is addToCart or clearError
AddOrClearError ==
    \/ clearError
    \/ \E product \in CartProducts, quantity \in 1..MaxUnits : addToCart(product, quantity)

\* C29: a successful checkout leaves error as it was, and the message it left in
\* place is changed by nothing but addToCart or clearError.
C29_ErrorKeptUntilCleared ==
    /\ [][\A payload \in BagToSet(calls) :
            CheckoutSucceededStep(payload) => cart'.error = cart.error]_vars
    /\ [][(result.kind = "resolved" /\ cart.error # Null /\ cart'.error # cart.error) =>
            AddOrClearError]_vars

---------------------------------------------------------------------------
(* Properties of the Booking Service and a catalog that changes during a *)
(* request, checked under SpecServer                                     *)

\* the catalog holds the product of the line, in stock, at the price of the line
InStockAtPrice(cat, line) ==
    IF cat[line.productId].kind = "doc"
    THEN cat[line.productId].inStock /\ cat[line.productId].price = line.price
    ELSE FALSE

\* the fetched products hold the product of the line at the price of the line
FetchedAtPrice(existing, line) ==
    \E p \in existing : p._id = line.productId /\ p.price = line.price

\* C25: the products a request fetched are those of its ids that the catalog holds in
\* stock at that moment, at their prices of that moment; every line of the booking it
\* constructs, and of the booking its save persists, is one of the fetched products
\* at the fetched price; and the save persists the booking as constructed whatever
\* the catalog holds by then, so a product taken out of stock or repriced between
\* the fetch and the save is booked at the fetched price.
C25_CheckThenSave ==
    /\ [][(findResolved /\ req'.kind = "request") =>
            /\ \A p \in req'.existing :
                    InStockAtPrice(catalog, [productId |-> p._id, price |-> p.price])
            /\ \A i \in 1..Len(req'.booking.products) :
                    /\ FetchedAtPrice(req'.existing, req'.booking.products[i])
                    /\ InStockAtPrice(catalog, req'.booking.products[i])]_vars
    /\ [](req.kind = "request" /\ req.pc # "find" =>
            \A i \in 1..Len(req.booking.products) :
                FetchedAtPrice(req.existing, req.booking.products[i]))
    /\ [][saveSettled =>
            /\ Len(bookings') = Len(bookings) + 1
            /\ bookings'[Len(bookings')].products = req.booking.products
            /\ req'.kind = "request"
            /\ req'.pc = "populate"]_vars

\* a booking is persisted with a line of a product that the catalog, changed since
\* the fetch of that request, holds out of stock and at another price
C25_Witness ==
    /\ req.kind = "request"
    /\ req.pc = "populate"
    /\ bookings # << >>
    /\ bookings[Len(bookings)].products = req.booking.products
    /\ \E i \in 1..Len(req.booking.products) :
            LET line == req.booking.products[i]
            IN /\ FetchedAtPrice(req.existing, line)
               /\ catalog[line.productId].kind = "doc"
               /\ catalog[line.productId].inStock = FALSE
               /\ catalog[line.productId].price # line.price

\* C28: a request that is answered with an error envelope (400 VALIDATION_ERROR,
\* 400 PRODUCTS_NOT_AVAILABLE or 500 BOOKING_CREATE_ERROR) has persisted no booking:
\* the answering step leaves the collection as it is, and the request is not one
\* whose save has already succeeded.
C28_ErrorMeansNothingPersisted ==
    [][(resp' # resp /\ resp' # NoResp /\ resp'.success = FALSE) =>
            /\ bookings' = bookings
            /\ req # NoReq => req.pc # "populate"]_vars

---------------------------------------------------------------------------
(* Properties of concurrent requests, checked under SpecConcurrent *)

\* the requests in flight: the one whose handler runs next and those waiting
InFlight == waiting (+) (IF req = NoReq THEN EmptyBag ELSE SetToBag({req}))

\* number of requests in flight whose save has persisted this booking
SavedInFlight(doc) ==
    LET saved == { r \in BagToSet(InFlight) : r.pc = "populate" /\ r.booking = doc }
    IN IF saved = {} THEN 0
       ELSE CopiesIn(CHOOSE r \in saved : TRUE, InFlight)

\* number of persisted bookings equal to this one
Persisted(doc) == Cardinality({ i \in 1..Len(bookings) : bookings[i] = doc })

\* the booking a 201 response shows is this persisted booking: its owner, status,
\* total, and line by line the quantity and price, with the product of the line
\* populated or null
ShowsBooking(shown, doc) ==
    /\ shown.userId = doc.userId
    /\ shown.status = doc.status
    /\ shown.totalAmount = doc.totalAmount
    /\ Len(shown.products) = Len(doc.products)
    /\ \A i \in 1..Len(doc.products) :
            /\ shown.products[i].quantity = doc.products[i].quantity
            /\ shown.products[i].price = doc.products[i].price
            /\ \/ shown.products[i].productId = NoProduct
               \/ shown.products[i].productId._id = doc.products[i].productId

\* C26: every save of a request appends one booking to the collection and leaves the
\* others as they are, also when an equal booking is persisted already or another
\* request is in flight; the collection changes in no other way; every request whose
\* save has succeeded has a booking of its own (equal requests, equal bookings, as
\* many of them); a 201 response carries the booking of its own request; and a
\* request is answered PRODUCTS_NOT_AVAILABLE only when its product is unavailable in
\* the catalog, with 500 only when one of its database operations failed or it names
\* a product by another text than the one the catalog gives for its id.
C26_RequestsIndependent ==
    /\ [](\A r \in BagToSet(InFlight) :
            r.pc = "populate" => SavedInFlight(r.booking) <= Persisted(r.booking))
    /\ [][saveSettled =>
            /\ bookings' = Append(bookings, req'.booking)
            /\ req'.booking.products = req.booking.products
            /\ req'.booking.userId = req.user
            /\ waiting' = waiting]_vars
    /\ [][bookings' # bookings => saveSettled]_vars
    /\ [][(resp' # resp /\ resp' # NoResp) =>
            CASE resp'.status = 201 ->
                    /\ req.pc = "populate"
                    /\ ShowsBooking(resp'.booking, req.booking)
                    /\ Persisted(req.booking) >= 1
              [] resp' = ProductsNotAvailable ->
                    req.pc = "find" /\ SomeRequestedUnavailable
              [] resp' = BookingCreateError ->
                    \/ databaseFailed
                    \/ /\ req.pc = "find"
                       /\ \E i \in 1..Len(req.body.products) :
                            req.body.products[i].productId \notin ProductIds
              [] OTHER -> req = NoReq /\ resp' = ValidationError]_vars
    /\ [][(findResolved /\ ~SomeRequestedUnavailable /\ resp' # BookingCreateError) =>
            req'.pc = "save"]_vars

\* two requests of one user for one product are in flight, each after the save of
\* its booking: the collection holds two equal bookings
C26_Witness ==
    /\ req # NoReq
    /\ req.pc = "populate"
    /\ BagIn(req, waiting)
    /\ Len(bookings) = 2
    /\ bookings[1] = bookings[2]
    /\ bookings[1] = req.booking

---------------------------------------------------------------------------
(* Properties of a checkout end to end, checked under SpecEndToEnd *)

\* every price of the lines is a whole number of cents
WholeCents(products) == \A i \in 1..Len(products) : products[i].price % Cent = 0

\* every line of the request has the price the request fetched for its product
PricedAsFetched(products, existing) ==
    \A i \in 1..Len(products) : FetchedAtPrice(existing, products[i])

\* sum of fetched price * quantity over the lines of the request
FetchedAmount(products, existing) ==
    AmountOf([i \in 1..Len(products) |->
                [quantity |-> products[i].quantity,
                 price |-> findProduct(existing, products[i].productId).price]])

\* C27 as stated, for a call invoked on a cart whose lines show the prices the
\* catalog holds at that moment, all in stock (the initial states of SpecEndToEnd),
\* with all prices of the cart and of the catalog in whole cents: the booking
\* persisted for the call has the totalAmount the cart had when createBooking was
\* invoked.
C27_TotalsAgreeAsInvoked ==
    [][(/\ saveSettled
        /\ bookings' # bookings
        /\ WholeCents(req.body.products)
        /\ WholeCents(req.booking.products)) =>
            IsAmount(bookings'[Len(bookings')].totalAmount, req.body.totalAmount)]_vars

\* C27: the booking persisted for a call has as totalAmount the sum of fetched price *
\* quantity over the lines of the request, whatever total and prices the request
\* carries; it equals the totalAmount the cart had when createBooking was invoked
\* whenever every line of the cart has a price in whole cents that is the price the
\* request fetched for its product.
C27_TotalsAgreeAsFetched ==
    [][(saveSettled /\ bookings' # bookings) =>
            LET total == bookings'[Len(bookings')].totalAmount
            IN /\ IsAmount(total, FetchedAmount(req.body.products, req.existing))
               /\ (/\ WholeCents(req.body.products)
                   /\ PricedAsFetched(req.body.products, req.existing))
                    => IsAmount(total, req.body.totalAmount)]_vars

\* the booking of a cart of two lines, both at the prices the request fetched, is
\* persisted with the total the cart had: 25.50
C27_Witness ==
    /\ req.kind = "request"
    /\ req.pc = "populate"
    /\ Len(req.body.products) = 2
    /\ PricedAsFetched(req.body.products, req.existing)
    /\ bookings # << >>
    /\ IsAmount(bookings[Len(bookings)].totalAmount, req.body.totalAmount)
    /\ req.body.totalAmount = 25500
    /\ cart.totalAmount = 25500

=============================================================================
